---- MODULE Spec2Model ----
(***************************************************************************)
(* Retrieval subsystem of the electrical-inspection assistant:             *)
(*   - DetectionParser (backend/vision/detection_parser.py)                *)
(*   - VectorStore     (HF_UPLOAD/backend/rag/vector_store.py)             *)
(*   - EmbeddingsGenerator.generate_document_embeddings                    *)
(*                     (HF_UPLOAD/backend/rag/embeddings.py)               *)
(*   - EmbeddingsCache (backend/rag/embeddings_cache.py)                   *)
(*   - PDFProcessor.chunk_text (backend/rag/pdf_processor.py)              *)
(* Each component has its own specification (SpecParser, SpecStore,        *)
(* SpecEmb, SpecCache, SpecChunk); the variables of the other components   *)
(* stay at their idle values.                                              *)
(***************************************************************************)
EXTENDS Integers, Sequences, FiniteSets, TLC

VARIABLES
    \* ---- DetectionParser
    text,          \* response_text.split('\n'): the input as a sequence of lines
    parsed,        \* the dict returned by parse_response / parse_vision_response
    first_pass,    \* non_conformities as parse_response returned them
    ppc,           \* "input" -> "parsed" -> "classified"
    \* ---- VectorStore
    ids,           \* self.ids
    embeddings,    \* self.embeddings
    documents,     \* self.documents
    metadatas,     \* self.metadatas
    data_file,     \* vector_data.pkl: ABSENT, CORRUPT or the saved lists
    results,       \* the list returned by the last search
    sop,           \* the last call made on the store, with its arguments
    \* ---- EmbeddingsCache
    cache_dir,     \* the cache directory: cache key -> content of <key>.json
    history,       \* the set calls made since the last clear, with their outcome
    got,           \* the last get call and what it returned
    \* ---- EmbeddingsGenerator.generate_document_embeddings
    e_docs,        \* documents
    use_cache,     \* use_cache
    disk,          \* what becomes of the cache writes of this run
    epc,           \* where the call stands
    doc_i,         \* position of doc in documents (1-based)
    batch_i,       \* i, the start of the batch
    all_embeddings,
    batch_embeddings,
    texts_to_embed,
    indices_to_embed,
    trace,         \* cache lookups, service calls and sleeps of the call so far
    \* ---- PDFProcessor.chunk_text
    full_text,     \* text
    chunk_size,
    overlap,
    start,
    chunks,
    cpc,           \* "loop" while the while loop runs, then "returned"
    \* ---- IntegratorAgent._classify_installation
    verified_nc,   \* verified_non_conformities
    classification,\* the dict returned
    ipc            \* "input" -> "classified"

parserVars == <<text, parsed, first_pass, ppc>>
storeVars  == <<ids, embeddings, documents, metadatas, data_file, results, sop>>
cacheVars  == <<cache_dir, history, got>>
embVars    == <<e_docs, use_cache, disk, epc, doc_i, batch_i, all_embeddings,
                batch_embeddings, texts_to_embed, indices_to_embed, trace>>
chunkVars  == <<full_text, chunk_size, overlap, start, chunks, cpc>>
integVars  == <<verified_nc, classification, ipc>>

vars == <<parserVars, storeVars, cacheVars, embVars, chunkVars, integVars>>

notParser == <<storeVars, cacheVars, embVars, chunkVars, integVars>>
notStore  == <<parserVars, cacheVars, embVars, chunkVars, integVars>>
notCache  == <<parserVars, storeVars, embVars, chunkVars, integVars>>
notEmb    == <<parserVars, storeVars, chunkVars, integVars>>
notChunk  == <<parserVars, storeVars, cacheVars, embVars, integVars>>
notInteg  == <<parserVars, storeVars, cacheVars, embVars, chunkVars>>

NONE == "None"

(***************************************************************************)
(* Python str helpers, on TLA+ strings. TLC keeps the strings of a state   *)
(* as bytes, so every string of the model is ASCII: the accented letters   *)
(* of the source's patterns and keywords, and of the input lines, are      *)
(* written unaccented ("Descripcion:" stands for 'Descripción:'). Patterns *)
(* and inputs are written alike, so what matches what is unchanged, and    *)
(* so is every length.                                                     *)
(***************************************************************************)
Ch(s, i) == SubSeq(s, i, i)

Digits == {"0", "1", "2", "3", "4", "5", "6", "7", "8", "9"}

\* \s : the whitespace characters the inputs can hold inside a line
Spaces == {" ", "\t"}

\* s[a:]   (a is a 1-based position here)
From(s, a) == SubSeq(s, a, Len(s))

StartsWith(s, p) == Len(s) >= Len(p) /\ SubSeq(s, 1, Len(p)) = p

\* p occurs in s at position i
At(s, i, p) == i >= 1 /\ i + Len(p) - 1 <= Len(s) /\ SubSeq(s, i, i + Len(p) - 1) = p

\* `k in s`
Contains(s, k) == \E i \in 1..(Len(s) - Len(k) + 1) : At(s, i, k)

\* s.find(k), 1-based; 0 when absent
Find(s, k) ==
    IF Contains(s, k)
    THEN CHOOSE i \in 1..(Len(s) - Len(k) + 1) :
            At(s, i, k) /\ \A h \in 1..(i - 1) : ~At(s, h, k)
    ELSE 0

\* first position >= i whose character is not in set cs (Len(s)+1 if none)
RECURSIVE SkipSet(_, _, _)
SkipSet(s, i, cs) ==
    IF i <= Len(s) /\ Ch(s, i) \in cs THEN SkipSet(s, i + 1, cs) ELSE i

\* last position <= i whose character is not in set cs (0 if none)
RECURSIVE SkipSetBack(_, _, _)
SkipSetBack(s, i, cs) ==
    IF i >= 1 /\ Ch(s, i) \in cs THEN SkipSetBack(s, i - 1, cs) ELSE i

\* str.strip()
Strip(s) == SubSeq(s, SkipSet(s, 1, Spaces), SkipSetBack(s, Len(s), Spaces))

\* at most n characters of cs skipped from position i
RECURSIVE SkipUpTo(_, _, _, _)
SkipUpTo(s, i, cs, n) ==
    IF n > 0 /\ i <= Len(s) /\ Ch(s, i) \in cs THEN SkipUpTo(s, i + 1, cs, n - 1) ELSE i

UpperCase == <<"A", "B", "C", "D", "E", "F", "G", "H", "I", "J", "K", "L", "M",
               "N", "O", "P", "Q", "R", "S", "T", "U", "V", "W", "X", "Y", "Z">>
LowerCase == <<"a", "b", "c", "d", "e", "f", "g", "h", "i", "j", "k", "l", "m",
               "n", "o", "p", "q", "r", "s", "t", "u", "v", "w", "x", "y", "z">>

LowerCh(c) ==
    IF \E k \in 1..Len(UpperCase) : UpperCase[k] = c
    THEN LowerCase[CHOOSE k \in 1..Len(UpperCase) : UpperCase[k] = c]
    ELSE c

\* str.lower()
RECURSIVE Lower(_)
Lower(s) == IF s = "" THEN "" ELSE LowerCh(Ch(s, 1)) \o Lower(From(s, 2))

\* re.sub(r'\*+', '', s)
RECURSIVE RemoveStars(_)
RemoveStars(s) ==
    IF s = "" THEN ""
    ELSE (IF Ch(s, 1) = "*" THEN "" ELSE Ch(s, 1)) \o RemoveStars(From(s, 2))

\* any(keyword in s for keyword in kws)
AnyKeyword(s, kws) == \E k \in kws : Contains(s, k)

(***************************************************************************)
(* The regular expressions of detection_parser.py, as sequences of         *)
(* elements matched greedily from a position (re.match) or from the first  *)
(* position where the match succeeds (re.search). A position is 1-based;   *)
(* 0 means "no match". All of them are used with re.IGNORECASE or on text  *)
(* without letters, so literals are given in lower case and matched        *)
(* against the lower-cased subject.                                        *)
(***************************************************************************)
Lit(v)  == [op |-> "lit", v |-> v]      \* the literal v
Opt(v)  == [op |-> "opt", v |-> v]      \* (?:v)?
WS0     == [op |-> "ws0", v |-> ""]     \* \s*
WS1     == [op |-> "ws1", v |-> ""]     \* \s+
Stars2  == [op |-> "stars2", v |-> ""]  \* \*{0,2}
Dig1    == [op |-> "dig1", v |-> ""]    \* \d+
AnyOpt  == [op |-> "anyopt", v |-> ""]  \* .?

\* position after `el` matched at position i of s, or 0
MatchEl(s, i, el) ==
    CASE el.op = "lit"    -> IF At(s, i, el.v) THEN i + Len(el.v) ELSE 0
      [] el.op = "opt"    -> IF At(s, i, el.v) THEN i + Len(el.v) ELSE i
      [] el.op = "ws0"    -> SkipSet(s, i, Spaces)
      [] el.op = "ws1"    -> IF SkipSet(s, i, Spaces) > i THEN SkipSet(s, i, Spaces) ELSE 0
      [] el.op = "stars2" -> SkipUpTo(s, i, {"*"}, 2)
      [] el.op = "dig1"   -> IF SkipSet(s, i, Digits) > i THEN SkipSet(s, i, Digits) ELSE 0
      [] el.op = "anyopt" -> IF i <= Len(s) THEN i + 1 ELSE i

\* position after pat[k..] matched at position i of s, or 0
RECURSIVE MatchFrom(_, _, _, _)
MatchFrom(s, i, pat, k) ==
    IF i = 0 THEN 0
    ELSE IF k > Len(pat) THEN i
    ELSE MatchFrom(s, MatchEl(s, i, pat[k]), pat, k + 1)

\* the least element of a set of positions, 0 when the set is empty
MinOf(S) == IF S = {} THEN 0 ELSE CHOOSE i \in S : \A h \in S : i <= h

\* e is the position after a match that leaves something of s
InLine(e, s) == e # 0 /\ e <= Len(s)

\* re.match(pat, s): position after the match, or 0
MatchEnd(s, pat) == MatchFrom(Lower(s), 1, pat, 1)

\* the first position of l where pat matches, or 0
StartIn(l, pat) == MinOf({i \in 1..(Len(l) + 1) : MatchFrom(l, i, pat, 1) # 0})

\* re.search(pat, s): the first position where pat matches, or 0
SearchStart(s, pat) == StartIn(Lower(s), pat)

EndAt(l, i, pat) == IF i = 0 THEN 0 ELSE MatchFrom(l, i, pat, 1)

\* re.search(pat, s): position after the first match, or 0
SearchEnd(s, pat) == EndAt(Lower(s), SearchStart(s, pat), pat)

\* (?:[.-]\d+)* continued from position e, the end of a \d+
RECURSIVE NumRefMore(_, _)
NumRefMore(s, e) ==
    IF e # 0 /\ e <= Len(s) /\ Ch(s, e) \in {".", "-"} /\ MatchEl(s, e + 1, Dig1) # 0
    THEN NumRefMore(s, MatchEl(s, e + 1, Dig1))
    ELSE e

\* (\d+(?:[.-]\d+)*) at position i: position after it, or 0
NumRefEnd(s, i) == NumRefMore(s, MatchEl(s, i, Dig1))

\* (?:c\d+)? from position e, for the separator c
OptPart(s, e, c) ==
    IF e # 0 /\ At(s, e, c) /\ MatchEl(s, e + 1, Dig1) # 0
    THEN MatchEl(s, e + 1, Dig1)
    ELSE e

\* (\d+(?:\.\d+)?(?:-\d+)?) at position i: position after it, or 0
NumRef2End(s, i) == OptPart(s, OptPart(s, MatchEl(s, i, Dig1), "."), "-")

(***************************************************************************)
(* DetectionParser: line-level extractors.                                 *)
(***************************************************************************)
Match(g) == [ok |-> TRUE, g |-> g]
NoMatch  == [ok |-> FALSE, g |-> ""]

\* detection_parser.py:44-48
critical_keywords ==
    {"riesgo", "peligro", "negligencia", "deficiente", "incumpl",
     "violacion", "no conforme", "incorrecta", "inadecuada",
     "ausencia", "falta", "sin", "expuesto", "dano", "corrosion"}

\* detection_parser.py:306-309
high_severity_keywords ==
    {"peligro", "riesgo", "expuesto", "sin proteccion",
     "falta de tierra", "conexion suelta", "corto circuito"}

\* the prefixes of numbered_patterns, up to the title group (.+?)
numbered_patterns ==
    << <<WS0, Stars2, Dig1, Lit("."), WS0>>,
       <<WS0, Dig1, Lit("."), WS0, Stars2>> >>

\* rest[:t] without up to two closing stars, one character at least
TitleUpTo(rest, t) ==
    SubSeq(rest, 1,
        IF t >= 2 /\ Ch(rest, t) = "*"
        THEN (IF t >= 3 /\ Ch(rest, t - 1) = "*" THEN t - 2 ELSE t - 1)
        ELSE (IF t < 1 THEN 1 ELSE t))

\* (.+?)\*{0,2}\s*$ on the rest of the line: the shortest non-empty prefix
\* that leaves at most two stars and white space
LazyTitle(rest) == TitleUpTo(rest, SkipSetBack(rest, Len(rest), Spaces))

\* lines 198-199: nc_title = re.sub(r'\*+', '', match.group(2).strip()) for
\* the numbered pattern p that matched (0: none did)
TitleOf(line, p) ==
    IF p = 0 THEN NoMatch
    ELSE Match(RemoveStars(Strip(LazyTitle(
             From(line, MatchEnd(line, numbered_patterns[p]))))))

\* lines 191-199: the first numbered pattern that matches the stripped line
NumberedTitleRe(line) ==
    TitleOf(line, MinOf({p \in 1..Len(numbered_patterns) :
                            InLine(MatchEnd(line, numbered_patterns[p]), line)}))

\* lines 219, 238: re.match(r'^\s*\*{0,2}\d+\.', line)
StopMatchRe(line) == MatchEnd(line, <<WS0, Stars2, Dig1, Lit(".")>>) # 0

\* lines 225-226: the group from position b, stripped, stars removed; (.+)
\* takes the last character of the line when \s* ran to its end
DescGroup(line, b) ==
    IF b <= Len(line) THEN Match(RemoveStars(Strip(From(line, b))))
    ELSE Match(RemoveStars(Strip(Ch(line, Len(line)))))

\* \*{0,2}\s*(.+) from le, the position after the label
DescAfter(line, le) ==
    IF le = 0 \/ le > Len(line) THEN NoMatch
    ELSE DescGroup(line, MatchFrom(line, le, <<Stars2, WS0>>, 1))

\* line 223: re.search(r'\*{0,2}Descripción:\*{0,2}\s*(.+)', next_line)
DescMatchRe(line) == DescAfter(line, SearchEnd(line, <<Stars2, Lit("descripcion:")>>))

\* line 264: the risk-level label
risk_prefix ==
    <<Stars2, Lit("nivel"), WS1, Lit("de"), WS1, Lit("riesgo:"), Stars2, WS0, Stars2>>

RiskLevels == {"alto", "medio", "bajo"}

\* (ALTO|MEDIO|BAJO) at position e of l; "" when none is there
LevelAt(l, e) ==
    IF e # 0 /\ \E w \in RiskLevels : At(l, e, w)
    THEN CHOOSE w \in RiskLevels : At(l, e, w)
    ELSE ""

\* the level of a risk label that starts at position i of l
RiskAt(l, i) == LevelAt(l, MatchFrom(l, i, risk_prefix, 1))

\* the first risk label of l that is followed by a level
RiskIn(l) ==
    IF \A i \in 1..Len(l) : RiskAt(l, i) = "" THEN NoMatch
    ELSE Match(RiskAt(l, MinOf({i \in 1..Len(l) : RiskAt(l, i) # ""})))

\* line 264: re.search(..., next_line, re.IGNORECASE)
RiskMatchRe(line) == RiskIn(Lower(line))

\* lines 242-247: article_patterns as prefix, (\d+(?:[.-]\d+)*), suffix;
\* the fourth is anchored at the start of the line
article_patterns ==
    << [pre |-> <<Lit("*"), WS0, Stars2>>, suf |-> <<Stars2, Lit(":")>>, anchored |-> FALSE],
       [pre |-> <<Lit("art"), Opt("iculo"), Lit("."), WS0>>, suf |-> <<>>, anchored |-> FALSE],
       [pre |-> <<Lit("articulo"), WS1>>, suf |-> <<>>, anchored |-> FALSE],
       [pre |-> <<>>, suf |-> <<Lit(":")>>, anchored |-> TRUE] >>

\* the number from position g and the suffix of ap after it: position after
\* the match, or 0
ArticleEnd(l, ap, g) == EndAt(l, IF g = 0 THEN 0 ELSE NumRefEnd(l, g), ap.suf)

\* the start positions at which article pattern ap matches l (lower-cased)
ArticleHits(l, ap) ==
    {i \in 1..Len(l) :
        /\ ap.anchored => i = 1
        /\ ArticleEnd(l, ap, MatchFrom(l, i, ap.pre, 1)) # 0}

\* art_match.group(1), the number that starts at position g
ArticleAt(line, l, g) == SubSeq(line, g, NumRefEnd(l, g) - 1)

\* the first match of article pattern p (0: no pattern matches)
ArticleBy(line, l, p) ==
    IF p = 0 THEN NONE
    ELSE ArticleAt(line, l,
             MatchFrom(l, MinOf(ArticleHits(l, article_patterns[p])),
                       article_patterns[p].pre, 1))

ArticleIn(line, l) ==
    ArticleBy(line, l,
        MinOf({p \in 1..Len(article_patterns) : ArticleHits(l, article_patterns[p]) # {}}))

\* lines 249-254: the first pattern, in list order, found in search_line
ArticleOfLineRe(line) == ArticleIn(line, Lower(line))

\* lines 93 and 278: (?:Art(?:ículo)?\\.?\s*)(number): the raw-string pattern
\* asks for a literal backslash after "Art"/"Artículo", then .? and \s*;
\* wide = TRUE is line 278's (\d+(?:[.-]\d+)*), FALSE line 93's
\* (\d+(?:\.\d+)?(?:-\d+)?)
BsNumEnd(l, g, wide) ==
    IF g = 0 THEN 0 ELSE IF wide THEN NumRefEnd(l, g) ELSE NumRef2End(l, g)

\* .? taken first (a), given back (b) when no number follows then
BsPick(l, wide, a, b) == IF BsNumEnd(l, a, wide) # 0 THEN a ELSE b

\* where the number starts, for a prefix that ends before position pre
BsGrpFrom(l, wide, pre) ==
    BsPick(l, wide, MatchFrom(l, pre, <<AnyOpt, WS0>>, 1), MatchFrom(l, pre, <<WS0>>, 1))

BsGrp(l, i, wide) ==
    BsGrpFrom(l, wide, MatchFrom(l, i, <<Lit("art"), Opt("iculo"), Lit("\\")>>, 1))

BsSlice(s, l, wide, g) == SubSeq(s, g, BsNumEnd(l, g, wide) - 1)

BsResult(s, l, wide, i) == IF i = 0 THEN NONE ELSE BsSlice(s, l, wide, BsGrp(l, i, wide))

BsIn(s, l, wide) ==
    BsResult(s, l, wide, MinOf({i \in 1..Len(l) : BsNumEnd(l, BsGrp(l, i, wide), wide) # 0}))

BackslashArticleRe(s, wide) == BsIn(s, Lower(s), wide)

\* line 89: numbered_items[:10]; line 102: non_conformities[:10]
MaxItems == 10

\* line 202: titles under 10 characters are skipped; line 283: descriptions too
MinLen == 10

(***************************************************************************)
(* The response texts the parser is run on: an optional heading line, up   *)
(* to MaxBody lines drawn from BodyLines, and a run of numbered items long *)
(* enough to pass the cap.                                                 *)
(***************************************************************************)
MaxBody  == 3
MaxExtra == 11

HeadingChoices ==
    {<<>>,
     <<"## No Conformidades">>,
     <<"### NO CONFORMIDADES DETECTADAS">>,
     <<"## Conformidades">>}

BodyLines ==
    {"1. **Conductor expuesto sin proteccion**",
     "2. Tablero mal rotulado",
     "3. Corto",
     "Descripcion: Cable pelado visible.",
     "Articulo 300-15",
     "Nivel de Riesgo: ALTO",
     "Nivel de Riesgo: MEDIO",
     "Nivel de Riesgo: BAJO",
     ""}

ExtraItem == "9. Falta tapa en registro"

ExtraCounts == {0, MaxItems, MaxExtra}

Bodies == UNION {[1..n -> BodyLines] : n \in 0..MaxBody}

ComposedTexts ==
    {h \o b \o [k \in 1..n |-> ExtraItem] :
        h \in HeadingChoices, b \in Bodies, n \in ExtraCounts}

\* a complete block under the heading: numbered title, description, article
\* and risk level, in this order
BlockTitles == {"1. **Conductor expuesto sin proteccion**", "2. Tablero mal rotulado"}

DescLabels == {"Descripcion: ", "**Descripcion:** "}

DescSaid ==
    {"Cable pelado visible.", "Corto", "Cable **pelado** visible.",
     "Incumple el Articulo 250-4"}

BlockArticles == {"300-15", "110.26"}

BlockLevels == {"ALTO", "MEDIO", "BAJO"}

BlockCases ==
    [title : BlockTitles, label : DescLabels, said : DescSaid,
     article : BlockArticles, level : BlockLevels]

DescLine(c) == c.label \o c.said

BlockText(c) ==
    <<"## No Conformidades", c.title, DescLine(c),
      "Articulo " \o c.article, "Nivel de Riesgo: " \o c.level>>

BlockTexts == {BlockText(c) : c \in BlockCases}

\* texts with a short numbered line that holds a critical keyword
LooseTexts ==
    {<<"4. Sin tapa">>,
     <<"Texto libre", "4. Sin tapa", "2. Tablero mal rotulado">>,
     <<"## No Conformidades", "4. Sin tapa">>}

ResponseTexts == ComposedTexts \cup BlockTexts \cup LooseTexts

(***************************************************************************)
(* The extractors above, tabulated once over the strings the inputs give   *)
(* rise to: the lines, what is left of a line from any position on, and    *)
(* these stripped and without stars (titles, descriptions, items, the      *)
(* rest of a heading line, a line up to its '##'). Same values, computed   *)
(* once.                                                                   *)
(***************************************************************************)
RawLines ==
    BodyLines \cup {ExtraItem} \cup {h[1] : h \in HeadingChoices \ {<<>>}}
        \cup UNION {{t[k] : k \in 1..Len(t)} : t \in BlockTexts \cup LooseTexts}

Suffixes(l) == {From(l, p) : p \in 1..(Len(l) + 1)}

\* s[:s.find('##')] where s holds '##'
BeforeHash(S) == {SubSeq(s, 1, Find(s, "##") - 1) : s \in {t \in S : Contains(t, "##")}}

Forms(S) ==
    S \cup {Strip(s) : s \in S} \cup {RemoveStars(Strip(s)) : s \in S}
      \cup {Strip(RemoveStars(s)) : s \in S} \cup BeforeHash(S)

KnownLines == Forms(UNION {Suffixes(l) : l \in RawLines} \cup {"*", " "})

StripTab == [s \in KnownLines |-> Strip(s)] @@ <<>>
StripLine(s) == StripTab[s]

NumberedTitleTab == [s \in KnownLines |-> NumberedTitleRe(s)] @@ <<>>
NumberedTitle(line) == NumberedTitleTab[line]

StopMatchTab == [s \in KnownLines |-> StopMatchRe(s)] @@ <<>>
StopMatch(line) == StopMatchTab[line]

DescMatchTab == [s \in KnownLines |-> DescMatchRe(s)] @@ <<>>
DescMatch(line) == DescMatchTab[line]

RiskMatchTab == [s \in KnownLines |-> RiskMatchRe(s)] @@ <<>>
RiskMatch(line) == RiskMatchTab[line]

ArticleOfLineTab == [s \in KnownLines |-> ArticleOfLineRe(s)] @@ <<>>
ArticleOfLine(line) == ArticleOfLineTab[line]

BackslashArticleTab ==
    [s \in KnownLines |-> [w \in BOOLEAN |-> BackslashArticleRe(s, w)] @@ <<>>] @@ <<>>
BackslashArticle(s, wide) == BackslashArticleTab[s][wide]

\* any(keyword in s.lower() for keyword in critical_keywords)  (lines 52, 91)
IsCriticalRe(s) == AnyKeyword(Lower(s), critical_keywords)
IsCriticalTab == [s \in KnownLines |-> IsCriticalRe(s)] @@ <<>>
IsCritical(s) == IsCriticalTab[s]

\* any(keyword in desc_lower for keyword in high_severity_keywords)  (line 315)
IsHighRiskRe(s) == AnyKeyword(Lower(s), high_severity_keywords)
IsHighRiskTab == [s \in KnownLines |-> IsHighRiskRe(s)] @@ <<>>
IsHighRisk(s) == IsHighRiskTab[s]

\* s.find('##'), 1-based, 0 when absent
HashPosRe(s) == Find(s, "##")
HashPosTab == [s \in KnownLines |-> HashPosRe(s)] @@ <<>>
HashPos(s) == HashPosTab[s]

(***************************************************************************)
(* DetectionParser._extract_non_conformities (lines 169-294).              *)
(* Python indices are 0-based; lines[k] below is Python's lines[k-1].      *)
(* A loop is a recursive operator; the values a pass of the loop binds     *)
(* (line, match, next_line, ...) are the arguments of the operator that    *)
(* continues the pass.                                                     *)
(***************************************************************************)
RECURSIVE ArticleSearch(_, _, _)

\* lines 249-257: the article of search_line, else the next line
ArticleOr(lines, search_idx, search_end, article) ==
    IF article # NONE THEN article
    ELSE ArticleSearch(lines, search_idx + 1, search_end)

\* lines 235-254
ArticleInLine(lines, search_idx, search_end, search_line) ==
    IF StopMatch(search_line) THEN NONE
    ELSE ArticleOr(lines, search_idx, search_end, ArticleOfLine(search_line))

\* lines 231-257: article = None, then the first line of lines[i+1 .. j-1]
\* (Python range(i + 1, search_end), search_end = min(j, len(lines))) that
\* holds an article, stopping at a numbered line
ArticleSearch(lines, search_idx, search_end) ==
    IF search_idx >= search_end THEN NONE
    ELSE ArticleInLine(lines, search_idx, search_end, StripLine(lines[search_idx]))

SeverityHigh(risk_level) == "high"

\* lines 266-272
SeverityOfLevel(risk_level) ==
    IF risk_level = "alto" THEN "high"
    ELSE IF risk_level = "medio" THEN "medium"
    ELSE "low"

\* lines 223-274: what one sub-line does to description, article, severity
SubUpdate(st, j, desc_match, article, risk_match) ==
    [j |-> j + 1,
     description |-> IF desc_match.ok THEN desc_match.g ELSE st.description,
     article |-> article,
     severity |-> IF risk_match.ok THEN SeverityOfLevel(risk_match.g) ELSE st.severity]

RECURSIVE SubItems(_, _, _, _)

\* lines 216-274 for the sub-line next_line = lines[j].strip()
SubLine(lines, i, j, st, next_line) ==
    IF StopMatch(next_line) \/ StartsWith(next_line, "##")
    THEN [st EXCEPT !.j = j]
    ELSE SubItems(lines, i, j + 1,
            SubUpdate(st, j, DescMatch(next_line), ArticleSearch(lines, i + 1, j),
                      RiskMatch(next_line)))

\* lines 215-274: the look-ahead loop over the sub-lines of item i
SubItems(lines, i, j, st) ==
    IF j > Len(lines) THEN [st EXCEPT !.j = j]
    ELSE SubLine(lines, i, j, st, StripLine(lines[j]))

DefaultSeverityLow == "low"

\* line 209: severity = 'high'  # Default
DefaultSeverity == "high"

\* lines 277-280: the article of the title when the sub-lines gave none
TitleArticle(st, nc_title) ==
    [st EXCEPT !.article = IF @ = NONE THEN BackslashArticle(nc_title, TRUE) ELSE @]

\* lines 197-290 for the numbered line i with title nc_title: the state of
\* the item when the look-ahead loop ends, with the title fallback for the
\* article
ScanItem(lines, i, nc_title) ==
    TitleArticle(SubItems(lines, i, i + 1,
                     [j |-> i + 1, description |-> nc_title,
                      article |-> NONE, severity |-> DefaultSeverity]),
                 nc_title)

RECURSIVE ExtractLoop(_, _, _)

\* lines 283-290: the item is added when its description has 10 characters
\* or more; i = j
ExtractItem(lines, non_conformities, st) ==
    ExtractLoop(lines, st.j,
        IF Len(st.description) >= MinLen
        THEN Append(non_conformities,
                 [description |-> st.description,
                  article |-> st.article,
                  severity |-> st.severity])
        ELSE non_conformities)

\* lines 197-292, match being the match of the numbered patterns
ExtractTitle(lines, i, non_conformities, match) ==
    IF ~match.ok \/ Len(match.g) < MinLen
    THEN ExtractLoop(lines, i + 1, non_conformities)
    ELSE ExtractItem(lines, non_conformities, ScanItem(lines, i, match.g))

\* lines 185-292 for line = lines[i].strip()
ExtractLine(lines, i, non_conformities, line) ==
    IF line = "" \/ StartsWith(line, "#")
    THEN ExtractLoop(lines, i + 1, non_conformities)
    ELSE ExtractTitle(lines, i, non_conformities, NumberedTitle(line))

\* lines 182-292: the loop over the lines of the section
ExtractLoop(lines, i, non_conformities) ==
    IF i > Len(lines) THEN non_conformities
    ELSE ExtractLine(lines, i, non_conformities, StripLine(lines[i]))

extract_non_conformities(lines) == ExtractLoop(lines, 1, <<>>)

(***************************************************************************)
(* DetectionParser._extract_sections (lines 39-144) on the lines of the    *)
(* text. A heading is found on one line; its section runs to the next "##" *)
(* or to the end of the text.                                              *)
(***************************************************************************)
\* lines 70-74; the optional warning sign of the first two patterns
\* is left out: no input line holds it
NoConfTail ==
    <<WS0, Lit("no"), WS1, Lit("conformidade"), Opt("s"),
      WS1, Lit("detectada"), Opt("s")>>

nonconf_patterns ==
    << <<Lit("###")>> \o NoConfTail,
       <<Lit("##")>> \o NoConfTail,
       <<Lit("##"), WS0, Lit("no"), WS1, Lit("conformidade"), Opt("s")>> >>

\* line 61; the optional check mark is left out likewise
conf_pattern == <<Lit("##"), WS0, Lit("conformidade"), Opt("s")>>

\* line 55
elements_patterns ==
    { <<Lit("##"), WS0, Lit("tipo de instalacion")>>,
      <<Lit("##"), WS0, Lit("elemento"), Opt("s"), WS1, Lit("visible"), Opt("s")>>,
      <<Lit("##"), WS0, Lit("elemento"), Opt("s"), WS1, Lit("identificado"), Opt("s")>> }

\* lines 105, 117, 123
obs_pattern  == <<Lit("##"), WS0, Lit("observacione"), Opt("s")>>
risk_pattern == <<Lit("##"), WS0, Lit("riesgo"), Opt("s")>>
rec_pattern  == <<Lit("##"), WS0, Lit("recomendacione"), Opt("s")>>

AllPatternSets ==
    {elements_patterns, {conf_pattern}, {obs_pattern}, {risk_pattern}, {rec_pattern}}
        \cup {{nonconf_patterns[p]} : p \in 1..Len(nonconf_patterns)}

\* position after the match of the pattern of ps that matches leftmost
HeadingBy(line, ps) ==
    IF ps = {} THEN 0
    ELSE SearchEnd(line, CHOOSE q \in ps :
             \A h \in ps : SearchStart(line, q) <= SearchStart(line, h))

\* position after the leftmost match of one of pats in line, 0 if none
HeadingEndRe(line, pats) == HeadingBy(line, {p \in pats : SearchStart(line, p) # 0})

HeadingEndTab ==
    [s \in KnownLines |-> [ps \in AllPatternSets |-> HeadingEndRe(s, ps)] @@ <<>>] @@ <<>>
HeadingEnd(line, pats) == HeadingEndTab[line][pats]

\* the lines that hold a match of one of the patterns pats
HeadingLines(lines, pats) == {k \in 1..Len(lines) : HeadingEnd(lines[k], pats) # 0}

\* the text ends with '\n': $ in (?=##|$) also matches before that newline
EndsWithNewline(lines) == Len(lines) >= 2 /\ lines[Len(lines)] = ""

\* (.*?)(?=##|$): the rest rest0 of the heading line k up to its '##' at h,
\* else the lines up to the '##' of line m, else (m = 0) up to the end
SectionCut(lines, k, rest0, h, m) ==
    IF h # 0 THEN <<SubSeq(rest0, 1, h - 1)>>
    ELSE IF m = 0
    THEN <<rest0>> \o SubSeq(lines, k + 1,
                         IF EndsWithNewline(lines) THEN Len(lines) - 1 ELSE Len(lines))
    ELSE <<rest0>> \o SubSeq(lines, k + 1, m - 1)
            \o <<SubSeq(lines[m], 1, HashPos(lines[m]) - 1)>>

SectionRest(lines, k, rest0) ==
    SectionCut(lines, k, rest0, HashPos(rest0),
               MinOf({m \in (k + 1)..Len(lines) : HashPos(lines[m]) # 0}))

\* k: the first line that holds the heading (0: none does)
SectionFrom(lines, pats, k) ==
    IF k = 0 THEN <<>>
    ELSE SectionRest(lines, k, From(lines[k], HeadingEnd(lines[k], pats)))

\* group(1) of re.search(heading + r'(.*?)(?=##|$)', text, re.DOTALL), split
\* at '\n'; <<>> stands for "no match"
SectionLines(lines, pats) == SectionFrom(lines, pats, MinOf(HeadingLines(lines, pats)))

HasSection(lines, pats) == HeadingLines(lines, pats) # {}

\* _extract_list_items (lines 146-167): '^\d+\.\s+(.+)$' or '^[-*]\s+(.+)$'
\* on each stripped, non-empty line
list_patterns ==
    << <<Dig1, Lit("."), WS1>>, <<Lit("-"), WS1>>, <<Lit("*"), WS1>> >>

ListItemBy(s, hits) ==
    IF s = "" \/ hits = {} THEN NoMatch
    ELSE Match(Strip(From(s, MatchEnd(s, list_patterns[CHOOSE p \in hits : TRUE]))))

ListItemOf(s) ==
    ListItemBy(s, {p \in 1..Len(list_patterns) : InLine(MatchEnd(s, list_patterns[p]), s)})

ListItemRe(line) == ListItemOf(Strip(line))

ListItemTab == [s \in KnownLines |-> ListItemRe(s)] @@ <<>>
ListItem(line) == ListItemTab[line]

\* lines 156-165: items.append(match.group(1).strip())
RECURSIVE extract_list_items(_)
extract_list_items(lines) ==
    IF lines = <<>> THEN <<>>
    ELSE IF ListItem(Head(lines)).ok
    THEN <<ListItem(Head(lines)).g>> \o extract_list_items(Tail(lines))
    ELSE extract_list_items(Tail(lines))

\* lines 63-67: conformities without "ninguna" and longer than 10 characters
Conformities(lines) ==
    SelectSeq(extract_list_items(SectionLines(lines, {conf_pattern})),
              LAMBDA c : ~Contains(Lower(c), "ninguna") /\ Len(c) > MinLen)

\* the section of heading pattern p; <<>> when p = 0
NonConfBy(lines, p) ==
    IF p = 0 THEN <<>> ELSE SectionLines(lines, {nonconf_patterns[p]})

\* lines 77-79: the section of the first heading pattern, in list order, that
\* matches; <<>> when none does
NonConfSection(lines) ==
    NonConfBy(lines,
        MinOf({p \in 1..Len(nonconf_patterns) : HasSection(lines, {nonconf_patterns[p]})}))

\* lines 76-82: only the first matching pattern is used
HeadingNonConformities(lines) == extract_non_conformities(NonConfSection(lines))

\* line 52
has_critical_issues(lines) ==
    \E k \in 1..Len(lines) : IsCritical(lines[k])

(***************************************************************************)
(* The keyword fallback (lines 84-100) and the cap (line 102).             *)
(***************************************************************************)
\* line 87: re.findall(r'^\s*\d+\.\s*\*?\*?(.+?)(?:\n|$)', text, re.MULTILINE).
\* The item is the rest of the numbered line; when nothing follows the
\* marker on its line, \s* runs over the line break and the item is taken
\* from the next line that holds anything but white space.
\* on one line: d, the position after '^\s*\d+\.\s*' (0: no match), and e,
\* the position after the '\*?\*?' that follows
MarkAt(line, d) == [d |-> d, e |-> MatchFrom(line, d, <<Stars2>>, 1)]

ItemMarkRe(line) == MarkAt(line, MatchEnd(line, <<WS0, Dig1, Lit("."), WS0>>))

ItemMarkTab == [s \in KnownLines |-> ItemMarkRe(s)] @@ <<>>
ItemMark(line) == ItemMarkTab[line]

\* the item taken from a later line, after its white space and stars at e2
ItemBelow(line, e2) == IF e2 <= Len(line) THEN From(line, e2) ELSE "*"

RECURSIVE FindNumbered(_, _, _)

\* nothing follows the marker of line k: the item comes from line m, the
\* next line that holds anything but white space (0: there is none)
FindBelow(lines, k, items, m) ==
    IF m # 0
    THEN FindNumbered(lines, m + 1,
             Append(items, ItemBelow(lines[m], MatchFrom(lines[m], 1, <<WS0, Stars2>>, 1))))
    ELSE IF \E n \in k..Len(lines) :
                lines[n] # "" /\ (n > k \/ Ch(lines[k], Len(lines[k])) \in Spaces)
    THEN Append(items, " ")
    ELSE items

FindAt(lines, k, items, mark) ==
    IF mark.d = 0 THEN FindNumbered(lines, k + 1, items)
    ELSE IF mark.e <= Len(lines[k])
    THEN FindNumbered(lines, k + 1, Append(items, From(lines[k], mark.e)))
    ELSE IF mark.e > mark.d THEN FindNumbered(lines, k + 1, Append(items, "*"))
    ELSE FindBelow(lines, k, items,
             MinOf({m \in (k + 1)..Len(lines) : StripLine(lines[m]) # ""}))

FindNumbered(lines, k, items) ==
    IF k > Len(lines) THEN items
    ELSE FindAt(lines, k, items, ItemMark(lines[k]))

\* line 97: item.strip()[:200]
MaxDescription == 200

\* s[:n]
Take(s, n) == SubSeq(s, 1, IF Len(s) < n THEN Len(s) ELSE n)

\* lines 90-100, for one item
FallbackItem(item, non_conformities) ==
    IF IsCritical(item)
    THEN Append(non_conformities,
             [description |-> Take(StripLine(item), MaxDescription),
              article |-> BackslashArticle(item, FALSE),
              severity |-> "high"])
    ELSE non_conformities

\* lines 89-100
RECURSIVE FallbackLoop(_, _)
FallbackLoop(items, non_conformities) ==
    IF items = <<>> THEN non_conformities
    ELSE FallbackLoop(Tail(items), FallbackItem(Head(items), non_conformities))

FallbackNonConformities(lines) ==
    FallbackLoop(Take(FindNumbered(lines, 1, <<>>), MaxItems), <<>>)

CapNone(non_conformities) == non_conformities

\* line 102: sections['no_conformidades'] = non_conformities[:10]
Cap(non_conformities) == Take(non_conformities, MaxItems)

NoFallback(lines, non_conformities) == non_conformities

\* lines 84-100: the fallback runs when the headings gave nothing and the
\* text holds a critical keyword
OrFallback(lines, non_conformities) ==
    IF non_conformities = <<>> /\ has_critical_issues(lines)
    THEN FallbackNonConformities(lines)
    ELSE non_conformities

\* lines 76-102
NonConformities(lines) == Cap(OrFallback(lines, HeadingNonConformities(lines)))

\* '\n'.join(lines)
RECURSIVE Join(_)
Join(lines) ==
    IF lines = <<>> THEN ""
    ELSE IF Len(lines) = 1 THEN lines[1]
    ELSE lines[1] \o "\n" \o Join(Tail(lines))

\* str.strip() over several lines
StripText(s) ==
    SubSeq(s, SkipSet(s, 1, Spaces \cup {"\n"}), SkipSetBack(s, Len(s), Spaces \cup {"\n"}))

\* parse_response (lines 17-37) with _extract_sections (lines 39-144)
parse_response(response_text) ==
    [raw_response        |-> response_text,
     elements_identified |-> extract_list_items(SectionLines(response_text, elements_patterns)),
     conformities        |-> Conformities(response_text),
     non_conformities    |-> NonConformities(response_text),
     observations        |-> StripText(Join(SectionLines(response_text, {obs_pattern}))),
     risks               |-> extract_list_items(SectionLines(response_text, {risk_pattern})),
     recommendations     |-> extract_list_items(SectionLines(response_text, {rec_pattern}))]

ClassifyKeep(nc) == nc

\* classify_severity (lines 311-320), for one non-conformity
Classify(nc) ==
    [nc EXCEPT !.severity =
        IF IsHighRisk(nc.description) THEN "high"
        ELSE IF nc.article # NONE /\ nc.article # "" THEN "medium"
        ELSE "low"]

\* classify_severity (lines 296-322)
classify_severity(non_conformities) ==
    [k \in 1..Len(non_conformities) |-> Classify(non_conformities[k])]

(***************************************************************************)
(* SpecParser: parse_vision_response (lines 349-369) on a response text.   *)
(* A text is an optional heading line, up to MaxBody lines drawn from      *)
(* BodyLines, and a run of numbered items long enough to pass the cap.     *)
(***************************************************************************)
NoResult == [raw_response |-> <<>>]

\* str(n) for n >= 0
RECURSIVE IntStr(_)
IntStr(n) ==
    IF n < 10 THEN SubSeq("0123456789", n + 1, n + 1)
    ELSE IntStr(n \div 10) \o SubSeq("0123456789", (n % 10) + 1, (n % 10) + 1)

\* generate_summary (lines 324-346); the check mark and the warning sign
\* that open the last line are left out
generate_summary(parsed_data) ==
    LET num_conformities     == Len(parsed_data.conformities)
        num_non_conformities == Len(parsed_data.non_conformities)
    IN "Analisis completado:\n"
           \o "- " \o IntStr(num_conformities) \o " conformidades detectadas\n"
           \o "- " \o IntStr(num_non_conformities) \o " no conformidades detectadas\n"
           \o (IF num_non_conformities = 0
               THEN "\nLa instalacion cumple con la normativa revisada."
               ELSE "\nSe requieren " \o IntStr(num_non_conformities) \o " correcciones.")

\* line 367: parsed['summary'] = parser.generate_summary(parsed)
WithSummary(p) == p @@ [summary |-> generate_summary(p)]

ParserIdle ==
    /\ text = <<>>
    /\ parsed = NoResult
    /\ first_pass = <<>>
    /\ ppc = "idle"

ParserInit ==
    /\ text \in ResponseTexts
    /\ parsed = NoResult
    /\ first_pass = <<>>
    /\ ppc = "input"

\* parse_response (lines 44-117)
ParseResponse ==
    /\ ppc = "input"
    /\ parsed' = parse_response(text)
    /\ first_pass' = parsed'.non_conformities
    /\ ppc' = "parsed"
    /\ UNCHANGED text
    /\ UNCHANGED notParser

\* parse_vision_response, lines 362-369: classify_severity and the summary;
\* classify_severity is skipped for an empty list, which it maps to itself
ClassifySeverity ==
    /\ ppc = "parsed"
    /\ parsed' = WithSummary([parsed EXCEPT !.non_conformities =
                                  IF @ = <<>> THEN @ ELSE classify_severity(@)])
    /\ ppc' = "classified"
    /\ UNCHANGED <<text, first_pass>>
    /\ UNCHANGED notParser

ParserNext == ParseResponse \/ ClassifySeverity

(***************************************************************************)
(* Claims on the parser. The items of the heading path are described here  *)
(* from the section alone: a numbered line with a title of ten characters  *)
(* or more opens an item, the item's block runs to the next numbered line  *)
(* or '##' line, and the item is reported when its description (the last   *)
(* 'Descripcion:' of the block, else the title) has ten characters or more.*)
(***************************************************************************)
ItemStarts(sec) ==
    {i \in 1..Len(sec) :
        /\ NumberedTitle(StripLine(sec[i])).ok
        /\ Len(NumberedTitle(StripLine(sec[i])).g) >= 10}


\* the line that closes the block of the item starting at line i
BlockEnd(sec, i) ==
    LET stops == {j \in (i + 1)..Len(sec) :
                     StopMatch(StripLine(sec[j])) \/ StartsWith(StripLine(sec[j]), "##")}
    IN IF stops = {} THEN Len(sec) + 1 ELSE CHOOSE j \in stops : \A h \in stops : j <= h

\* the sub-lines of the item that starts at line i
Block(sec, i) == (i + 1)..(BlockEnd(sec, i) - 1)

ItemDescription(sec, i) ==
    LET ds == {j \in Block(sec, i) : DescMatch(StripLine(sec[j])).ok}
    IN IF ds = {} THEN NumberedTitle(StripLine(sec[i])).g
       ELSE DescMatch(StripLine(sec[CHOOSE j \in ds : \A h \in ds : h <= j])).g

\* the lines of the reported items, in order
ReportedItems(sec) ==
    SelectSeq([i \in 1..Len(sec) |-> i],
              LAMBDA i : i \in ItemStarts(sec) /\ Len(ItemDescription(sec, i)) >= 10)

\* the item that starts at line i carries no 'Nivel de Riesgo' label
Unlabelled(sec, i) == \A j \in Block(sec, i) : ~RiskMatch(StripLine(sec[j])).ok

\* every entry of ncs that comes from an unlabelled item of items has
\* severity 'high'; without items, ncs comes from the fallback, which has no
\* labels at all
HighWhereUnlabelled(sec, items, ncs) ==
    IF items = <<>>
    THEN \A k \in 1..Len(ncs) : ncs[k].severity = "high"
    ELSE \A k \in 1..Len(ncs) :
            /\ k <= Len(items)
            /\ Unlabelled(sec, items[k]) => ncs[k].severity = "high"

\* in the list ncs, drawn from text t, every entry that comes from an
\* unlabelled numbered item has severity 'high'
UnlabelledAreHigh(t, ncs) ==
    LET sec == NonConfSection(t)
    IN HighWhereUnlabelled(sec, ReportedItems(sec), ncs)

\* C1 as stated: in the result of parse_vision_response, every non-conformity
\* extracted from a numbered item without a 'Nivel de Riesgo' label has
\* severity 'high'.
C1_Original == ppc = "classified" => UnlabelledAreHigh(text, parsed.non_conformities)

\* C1 amended: in the result of parse_response (before classify_severity
\* runs), every non-conformity extracted from a numbered item without a
\* 'Nivel de Riesgo' label has severity 'high'.
C1_ParseResponseDefaultsHigh == ppc # "input" => UnlabelledAreHigh(text, first_pass)

\* an unlabelled item under a heading was reported, and the later pass
\* lowered it
C1_Witness ==
    /\ ppc = "classified"
    /\ ReportedItems(NonConfSection(text)) # <<>>
    /\ Unlabelled(NonConfSection(text), ReportedItems(NonConfSection(text))[1])
    /\ first_pass[1].severity = "high"
    /\ parsed.non_conformities[1].severity = "low"

\* C2: the non_conformities list returned by parse_response has at most 10
\* entries, on the heading path and on the keyword fallback path.
C2_AtMostTen == ppc # "input" => Len(first_pass) <= 10 /\ Len(parsed.non_conformities) <= 10

\* more than ten items were extracted under a heading, ten were returned
C2_Witness ==
    /\ ppc = "parsed"
    /\ Len(HeadingNonConformities(text)) > 10
    /\ Len(parsed.non_conformities) = 10

\* the same on the fallback path: more than ten numbered keyword lines
C2_WitnessFallback ==
    /\ ppc = "parsed"
    /\ HeadingNonConformities(text) = <<>>
    /\ Len(FindNumbered(text, 1, <<>>)) > 10
    /\ Len(parsed.non_conformities) = 10

\* the severity C17 gives for a risk level
LevelSeverity(level) ==
    CASE level = "ALTO"  -> "high"
      [] level = "MEDIO" -> "medium"
      [] level = "BAJO"  -> "low"

\* C17 as stated: for a block under '## No Conformidades' made of a numbered
\* title of ten characters or more, a 'Descripcion:' line, an 'Articulo N'
\* line and a 'Nivel de Riesgo: L' line, parse_response yields exactly one
\* non-conformity: its description is the text after 'Descripcion:', its
\* article is N and its severity is the one of L.
C17_Original ==
    ppc # "input" =>
        \A c \in BlockCases :
            text = BlockText(c) =>
                first_pass = <<[description |-> c.said,
                                article     |-> c.article,
                                severity    |-> LevelSeverity(c.level)]>>

\* the text after 'Descripcion:' as the parser keeps it: without surrounding
\* white space and without asterisks
Kept(said) == RemoveStars(Strip(said))

\* the title of the block holds a critical keyword
TitleIsCritical(c) == \E kw \in critical_keywords : Contains(Lower(c.title), kw)

\* what the keyword fallback makes of the title of the block
TitleFallback(c, found) ==
    /\ Len(found) = (IF TitleIsCritical(c) THEN 1 ELSE 0)
    /\ \A k \in 1..Len(found) :
           /\ Contains(c.title, found[k].description)
           /\ found[k].article = NONE
           /\ found[k].severity = "high"

\* C17 amended: for such a block, when the text after 'Descripcion:'
\* (stripped, asterisks removed) has ten characters or more, parse_response
\* yields exactly one non-conformity, whose description is that text, whose
\* severity is the one of L, and whose article is N unless the
\* 'Descripcion:' line itself holds an article reference, which is then the
\* article. When that text is shorter, the block yields nothing and the
\* result is the keyword fallback's: the title with severity 'high' and no
\* article when the title holds a critical keyword, nothing otherwise.
C17_BlockYieldsItem ==
    ppc # "input" =>
        \A c \in BlockCases :
            text = BlockText(c) =>
                IF Len(Kept(c.said)) < 10 THEN TitleFallback(c, first_pass)
                ELSE first_pass =
                        <<[description |-> Kept(c.said),
                           article     |-> IF ArticleOfLine(DescLine(c)) # NONE
                                           THEN ArticleOfLine(DescLine(c))
                                           ELSE c.article,
                           severity    |-> LevelSeverity(c.level)]>>

\* a block with a title, its own description, an article and the level
\* MEDIO was parsed into one item
C17_Witness ==
    /\ ppc = "parsed"
    /\ \E c \in BlockCases :
           /\ text = BlockText(c)
           /\ c.level = "MEDIO"
           /\ c.said = "Cable pelado visible."
           /\ first_pass = <<[description |-> "Cable pelado visible.",
                              article     |-> c.article,
                              severity    |-> "medium"]>>

\* the text holds none of the section headings
NoHeadings(t) == \A ps \in AllPatternSets : HeadingLines(t, ps) = {}

\* one of the first ten numbered items of the text holds a critical keyword
KeywordAmong(items) == {k \in 1..Len(items) : IsCritical(items[k])}

KeywordItems(t) == KeywordAmong(Take(FindNumbered(t, 1, <<>>), MaxItems))

\* every field but the non-conformities is empty and the text is kept
EmptyButFindings(p, t) ==
    /\ p.raw_response = t
    /\ p.elements_identified = <<>>
    /\ p.conformities = <<>>
    /\ p.risks = <<>>
    /\ p.recommendations = <<>>
    /\ p.observations = ""

\* C18 as stated: for a text without any of the section headings,
\* parse_response returns empty lists for elements, conformities,
\* non-conformities, risks and recommendations, an empty observations
\* string, and raw_response equal to the text.
C18_Original ==
    (ppc = "parsed" /\ NoHeadings(text)) =>
        EmptyButFindings(parsed, text) /\ parsed.non_conformities = <<>>

\* C18 amended: for such a text every field but the non-conformities is
\* empty and raw_response is the text; the non-conformities are those of
\* the keyword fallback: one entry of severity 'high' for each of the first
\* ten numbered items that holds a critical keyword, and none when no such
\* item exists.
C18_NoHeadingsOnlyFallback ==
    (ppc = "parsed" /\ NoHeadings(text)) =>
        /\ EmptyButFindings(parsed, text)
        /\ Len(parsed.non_conformities) = Cardinality(KeywordItems(text))
        /\ \A k \in 1..Len(parsed.non_conformities) :
               parsed.non_conformities[k].severity = "high"

\* a text without headings whose numbered keyword lines became findings
C18_Witness ==
    /\ ppc = "parsed"
    /\ NoHeadings(text)
    /\ Len(text) >= 2
    /\ Len(parsed.non_conformities) >= 2
    /\ EmptyButFindings(parsed, text)

\* C19 as stated: every non-conformity that parse_response returns, on the
\* heading path and on the keyword fallback, has a description of ten
\* characters or more, an article that is a string or absent, and a
\* severity among high, medium and low.
C19_Original ==
    ppc # "input" =>
        \A k \in 1..Len(first_pass) :
            /\ Len(first_pass[k].description) >= 10
            /\ first_pass[k].article = NONE \/ Len(first_pass[k].article) >= 1
            /\ first_pass[k].severity \in {"high", "medium", "low"}

\* the severity C20 gives to a non-conformity
FinalSeverity(nc) ==
    IF IsHighRisk(nc.description) THEN "high"
    ELSE IF nc.article # NONE /\ nc.article # "" THEN "medium"
    ELSE "low"

\* C20: in the result of parse_vision_response every non-conformity keeps
\* its description and article, and its severity is 'high' when the
\* description holds a high-risk keyword, else 'medium' when it has an
\* article, else 'low', whatever severity parse_response gave it.
C20_FinalSeverityFromContent ==
    ppc = "classified" =>
        /\ Len(parsed.non_conformities) = Len(first_pass)
        /\ \A k \in 1..Len(first_pass) :
               /\ parsed.non_conformities[k].description = first_pass[k].description
               /\ parsed.non_conformities[k].article = first_pass[k].article
               /\ parsed.non_conformities[k].severity = FinalSeverity(first_pass[k])

\* an item labelled BAJO ends 'high' by its keyword, and one labelled ALTO
\* ends 'low' or 'medium'
C20_Witness ==
    /\ ppc = "classified"
    /\ \E k \in 1..Len(first_pass) :
           /\ first_pass[k].severity = "low"
           /\ parsed.non_conformities[k].severity = "high"
    /\ \E k \in 1..Len(first_pass) :
           /\ first_pass[k].severity = "high"
           /\ parsed.non_conformities[k].severity # "high"


\* the sub-lines of the item starting at line i that hold an article
\* reference matching one of the four patterns
ArticleLines(sec, i) == {j \in Block(sec, i) : ArticleOfLine(StripLine(sec[j])) # NONE}

\* the reference of the earliest such line, by the first pattern that
\* matches it
EarliestArticle(sec, i) == ArticleOfLine(StripLine(sec[MinOf(ArticleLines(sec, i))]))

ArticlesAsStated(sec, items, ncs) ==
    \A k \in 1..Len(ncs) :
        (k <= Len(items) /\ ArticleLines(sec, items[k]) # {}) =>
            ncs[k].article = EarliestArticle(sec, items[k])

\* C22 as stated: for each numbered non-conformity item, if a line between
\* it and the next numbered item (or the end of the section) holds an
\* article reference matching one of the four patterns, the item's article
\* is the reference of the earliest such line, by the first pattern in list
\* order that matches that line.
C22_Original ==
    ppc # "input" =>
        ArticlesAsStated(NonConfSection(text),
                         ReportedItems(NonConfSection(text)), first_pass)

\* the numbered items of the whole text that hold a critical keyword, in
\* text order
KeywordLines(t) == SelectSeq(FindNumbered(t, 1, <<>>), IsCritical)

\* ncs reports the first ten of the items, in order, each with severity 'high'
ReportsFirstTen(items, ncs) ==
    /\ Len(ncs) = Len(Take(items, MaxItems))
    /\ \A k \in 1..Len(ncs) :
           /\ ncs[k].description = Take(StripLine(items[k]), MaxDescription)
           /\ ncs[k].severity = "high"

\* C23 as stated: when the heading path yields no non-conformity and the
\* text holds a risk keyword, parse_response returns the numbered lines of
\* the whole text that hold a risk keyword, in text order, limited to the
\* first ten such lines, each with severity 'high'.
C23_Original ==
    (ppc # "input" /\ HeadingNonConformities(text) = <<>> /\ has_critical_issues(text)) =>
        ReportsFirstTen(KeywordLines(text), first_pass)

\* C26 as stated: whenever the text holds one of the critical keywords
\* (case-insensitively, as a substring), parse_response returns at least
\* one non-conformity.
C26_Original == (ppc # "input" /\ has_critical_issues(text)) => Len(first_pass) >= 1

\* the conformity c and the non-conformity nc report the same list item:
\* the same text, asterisks aside
SameItem(c, nc) == RemoveStars(c) = RemoveStars(nc.description)

\* C30 as stated: no list item of the text is reported by parse_response
\* both in conformities and in non_conformities: a numbered line extracted
\* as a conformity under the Conformities heading never also produces a
\* non-conformity entry.
C30_Original ==
    ppc = "parsed" =>
        \A i \in 1..Len(parsed.conformities), k \in 1..Len(parsed.non_conformities) :
            ~SameItem(parsed.conformities[i], parsed.non_conformities[k])

(***************************************************************************)
(* VectorStore (HF_UPLOAD/backend/rag/vector_store.py). An embedding is a  *)
(* tuple of integers whose Euclidean norm is an integer, so that the       *)
(* floating-point comparisons of the code are decided exactly. What pickle *)
(* writes for these lists, strings and dicts it reads back unchanged, so   *)
(* the file holds the four lists as they are.                              *)
(***************************************************************************)
ABSENT  == [state |-> "absent"]
CORRUPT == [state |-> "corrupt"]

Range(s) == {s[x] : x \in 1..Len(s)}

Min(a, b) == IF a < b THEN a ELSE b

chunk_id_from_one(norm_id, i) == norm_id \o "_chunk_" \o IntStr(i + 1)

\* line 69: chunk_id = f"{norm_id}_chunk_{i}"
chunk_id(norm_id, i) == norm_id \o "_chunk_" \o IntStr(i)

IsNewAlways(st_ids, cid) == TRUE

\* line 71: if chunk_id not in self.ids
IsNew(st_ids, cid) == cid \notin Range(st_ids)

Lists(a, b, c, d) == [ids |-> a, embeddings |-> b, documents |-> c, metadatas |-> d]

EmptyLists == Lists(<<>>, <<>>, <<>>, <<>>)

\* lines 68-80: for i, (chunk, embedding) in enumerate(zip(chunks, embeddings))
RECURSIVE AddChunks(_, _, _)
AddChunks(st, doc, i) ==
    IF i >= Min(Len(doc.chunks), Len(doc.embeddings)) THEN st
    ELSE LET cid   == chunk_id(doc.norm_id, i)
             chunk == doc.chunks[i + 1]
             meta  == [norm_id      |-> doc.norm_id,
                       filename     |-> doc.filename,
                       chunk_index  |-> i,
                       total_chunks |-> Len(doc.chunks)]
         IN AddChunks(
                IF IsNew(st.ids, cid)
                THEN Lists(Append(st.ids, cid),
                           Append(st.embeddings, doc.embeddings[i + 1]),
                           Append(st.documents, chunk),
                           Append(st.metadatas, meta))
                ELSE st,
                doc, i + 1)

\* line 63: embeddings = doc.get('embeddings', [])
GetEmbeddings(doc) == IF "embeddings" \in DOMAIN doc THEN doc.embeddings ELSE <<>>

\* lines 60-80: a document without embeddings is skipped
RECURSIVE AddDocs(_, _, _)
AddDocs(st, docs, d) ==
    IF d > Len(docs) THEN st
    ELSE AddDocs(IF GetEmbeddings(docs[d]) = <<>> THEN st
                 ELSE AddChunks(st, docs[d], 0),
                 docs, d + 1)

\* lines 47-52: the dict that pickle.dump writes
Snapshot(st) ==
    [ids |-> st.ids, embeddings |-> st.embeddings,
     documents |-> st.documents, metadatas |-> st.metadatas]

\* _save, lines 43-54: the lists are written; a failure is printed and
\* swallowed, and leaves the old file (open failed) or a truncated one
SaveOutcomes(st, file) ==
    {[ok |-> TRUE, file |-> Snapshot(st)],
     [ok |-> FALSE, file |-> file],
     [ok |-> FALSE, file |-> CORRUPT]}

\* data.get(key, [])
DictGet(data, key) == IF key \in DOMAIN data THEN data[key] ELSE <<>>

LoadedNothing(file) == EmptyLists

\* _load, lines 29-41: the lists stay empty when there is no file or it
\* cannot be read; else each list is read from its key
Loaded(file) ==
    IF file \in {ABSENT, CORRUPT} THEN EmptyLists
    ELSE Lists(DictGet(file, "ids"), DictGet(file, "embeddings"),
               DictGet(file, "documents"), DictGet(file, "metadatas"))

\* the file a process leaves that stops during add_documents: untouched
\* (before _save opened it), truncated (open(path, 'wb') done, the dump not
\* finished), or written (the dump finished)
StopOutcomes(st, file) == {file, CORRUPT, Snapshot(st)}

\* lines 91 and 128-130: the body of search is one try block whose
\* 'except Exception' returns []; no error of the body leaves search
SearchRaises == FALSE

(***************************************************************************)
(* search, lines 85-130.                                                   *)
(***************************************************************************)
Abs(x) == IF x < 0 THEN 0 - x ELSE x

RECURSIVE Dot(_, _)
Dot(a, b) == IF a = <<>> THEN 0 ELSE a[1] * b[1] + Dot(Tail(a), Tail(b))

\* np.linalg.norm, for vectors whose norm is an integer
Norm(v) == CHOOSE n \in 0..Dot(v, v) : n * n = Dot(v, v)

\* line 102: dot / (norms + 1e-9), kept as the pair (dot, norms)
Similarity(e, q) == [dot |-> Dot(e, q), norms |-> Norm(e) * Norm(q)]

\* a > b for two similarities: d1/(m1 + 1e-9) > d2/(m2 + 1e-9) is
\* (d1*m2 - d2*m1) + 1e-9*(d1 - d2) > 0, and these are integers
Greater(a, b) ==
    LET x == a.dot * b.norms - b.dot * a.norms
    IN IF x # 0 THEN x > 0 ELSE a.dot > b.dot

\* line 124: float(1.0 - score)
Distance(score) == [one_minus |-> score]

\* Python truth value of the norm_filter argument (line 106)
Truthy(norm_filter) == norm_filter # NONE /\ norm_filter # ""

AllIndices(metas, norm_filter) == [x \in 1..Len(metas) |-> x]

\* lines 105-107: indices whose metadata has the norm, or all of them
FilteredIndices(metas, norm_filter) ==
    IF Truthy(norm_filter)
    THEN SelectSeq([x \in 1..Len(metas) |-> x],
                   LAMBDA x : metas[x].norm_id = norm_filter)
    ELSE [x \in 1..Len(metas) |-> x]

Unsorted(idx, sims) == idx

\* line 114: filtered_similarities.sort(key=score, reverse=True); the sort is
\* stable, so an index goes behind every index of equal or greater score
RECURSIVE SortByScore(_, _)
SortByScore(idx, sims) ==
    IF idx = <<>> THEN <<>>
    ELSE LET front == SortByScore(SubSeq(idx, 1, Len(idx) - 1), sims)
             x     == idx[Len(idx)]
             keep  == {p \in 0..Len(front) :
                          \A r \in 1..p : ~Greater(sims[x], sims[front[r]])}
             pos   == CHOOSE p \in keep : \A r \in keep : r <= p
         IN SubSeq(front, 1, pos) \o <<x>> \o SubSeq(front, pos + 1, Len(front))

\* lines 88-130; query is what generate_query_embedding gave: a vector, or
\* an exception
search(st, query, n_results, norm_filter) ==
    IF st.embeddings = <<>> THEN <<>>
    ELSE IF ~query.ok \/ \E x \in 1..Len(st.embeddings) :
                             Len(st.embeddings[x]) # Len(query.vector)
    THEN <<>>
    ELSE LET sims     == [x \in 1..Len(st.embeddings) |->
                              Similarity(st.embeddings[x], query.vector)]
             filtered == FilteredIndices(st.metadatas, norm_filter)
             top      == Take(SortByScore(filtered, sims), n_results)
         IN [r \in 1..Len(top) |->
                [id       |-> st.ids[top[r]],
                 content  |-> st.documents[top[r]],
                 metadata |-> st.metadatas[top[r]],
                 distance |-> Distance(sims[top[r]])]]

(***************************************************************************)
(* The store's callers: the documents handed to add_documents and the      *)
(* arguments of search. Two norms; a second edition of the first norm that *)
(* reuses its first chunk id with another text and vector; two chunks with *)
(* the same vector; a document without embeddings; and one with fewer      *)
(* embeddings than chunks. Every document has the keys process_pdf gives   *)
(* it (norm_id, filename, chunks).                                         *)
(***************************************************************************)
MaxK == 2

DocChoices ==
    { [norm_id |-> "NOM-250", filename |-> "NOM-250.pdf",
       chunks |-> <<"tierra fisica", "tablero">>,
       embeddings |-> << <<1, 0>>, <<0, 1>> >>],
      [norm_id |-> "NOM-250", filename |-> "NOM-250.pdf",
       chunks |-> <<"otra edicion">>,
       embeddings |-> << <<3, 4>> >>],
      [norm_id |-> "NOM-408", filename |-> "NOM-408.pdf",
       chunks |-> <<"puesta a tierra", "canalizacion">>,
       embeddings |-> << <<0, 1>>, <<-1, 0>> >>],
      [norm_id |-> "NOM-408", filename |-> "NOM-408.pdf",
       chunks |-> <<"gabinete", "cerradura">>,
       embeddings |-> << <<4, 3>> >>],
      [norm_id |-> "NOM-408", filename |-> "NOM-408.pdf",
       chunks |-> <<"sin vector">>] }

\* one document, or one of each norm
DocLists ==
    {<<d>> : d \in DocChoices}
        \cup {p \in DocChoices \X DocChoices : p[1].norm_id # p[2].norm_id}

\* what generate_query_embedding gives for the query text
QueryOutcomes ==
    {[ok |-> TRUE, vector |-> v] : v \in {<<1, 0>>, <<3, 4>>, <<0, 0>>, <<1, 0, 0>>}}
        \cup {[ok |-> FALSE, vector |-> <<>>]}

NormFilters == {NONE, "", "NOM-250", "NOM-999"}

Store == Lists(ids, embeddings, documents, metadatas)

count == Len(ids)

StoreIdle ==
    /\ ids = <<>>
    /\ embeddings = <<>>
    /\ documents = <<>>
    /\ metadatas = <<>>
    /\ data_file = ABSENT
    /\ results = <<>>
    /\ sop = [op |-> "none"]

\* __init__ on a directory without vector_data.pkl (lines 14-27)
StoreInit ==
    /\ ids = <<>>
    /\ embeddings = <<>>
    /\ documents = <<>>
    /\ metadatas = <<>>
    /\ data_file = ABSENT
    /\ results = <<>>
    /\ sop = [op |-> "init"]

SetLists(st) ==
    /\ ids' = st.ids
    /\ embeddings' = st.embeddings
    /\ documents' = st.documents
    /\ metadatas' = st.metadatas

\* add_documents, lines 56-83, with the _save it ends with (line 82)
AddDocuments ==
    \E docs \in DocLists :
        LET st == AddDocs(Store, docs, 1)
        IN \E saved \in SaveOutcomes(st, data_file) :
               /\ SetLists(st)
               /\ data_file' = saved.file
               /\ results' = <<>>
               /\ sop' = [op |-> "add", docs |-> docs, saved |-> saved.ok]
               /\ UNCHANGED notStore

\* search, lines 85-130
Search ==
    \E query \in QueryOutcomes, n_results \in 1..MaxK, norm_filter \in NormFilters :
        /\ results' = search(Store, query, n_results, norm_filter)
        /\ sop' = [op |-> "search", query |-> query, n_results |-> n_results,
                   norm_filter |-> norm_filter, raised |-> SearchRaises]
        /\ UNCHANGED <<ids, embeddings, documents, metadatas, data_file>>
        /\ UNCHANGED notStore

\* clear, lines 156-164
Clear ==
    /\ SetLists(EmptyLists)
    /\ data_file' = ABSENT
    /\ results' = <<>>
    /\ sop' = [op |-> "clear"]
    /\ UNCHANGED notStore

\* a new process constructs the store on the same directory:
\* __init__ and _load, lines 14-41
Reopen ==
    /\ SetLists(Loaded(data_file))
    /\ results' = <<>>
    /\ sop' = [op |-> "open", after |-> sop.op,
               saved |-> IF sop.op = "add" THEN sop.saved ELSE sop.op = "clear",
               memory |-> Store]
    /\ UNCHANGED <<data_file>>
    /\ UNCHANGED notStore

\* the process stops somewhere in add_documents (lines 56-83) and a new
\* process constructs the store on the same directory (lines 14-41)
StopInAdd ==
    \E docs \in DocLists :
        \E file \in StopOutcomes(AddDocs(Store, docs, 1), data_file) :
            /\ data_file' = file
            /\ SetLists(Loaded(file))
            /\ results' = <<>>
            /\ sop' = [op |-> "restart", docs |-> docs, before |-> data_file,
                       memory |-> Store]
            /\ UNCHANGED notStore

StoreNext == AddDocuments \/ Search \/ Clear \/ Reopen \/ StopInAdd

(***************************************************************************)
(* Claims on the store. They are stated on the state right after a call:   *)
(* sop holds the call and its arguments, results what search returned.     *)
(***************************************************************************)
MatchingEntries(norm_filter) ==
    {x \in 1..Len(metadatas) : metadatas[x].norm_id = norm_filter}

Selected ==
    IF sop.norm_filter \in {NONE, ""} THEN 1..Len(ids)
    ELSE MatchingEntries(sop.norm_filter)

SimOf(x) == Similarity(embeddings[x], sop.query.vector)

\* entry y comes before entry x: greater similarity, or equal and added earlier
Before(y, x) ==
    \/ Greater(SimOf(y), SimOf(x))
    \/ ~Greater(SimOf(x), SimOf(y)) /\ y < x

RankOf(x) == Cardinality({y \in Selected : Before(y, x)}) + 1

EntryOf(x) ==
    [id |-> ids[x], content |-> documents[x], metadata |-> metadatas[x],
     distance |-> Distance(SimOf(x))]

\* the cosine similarity of the query to the stored vectors exists: the
\* query embedding was computed and has their dimension
Comparable ==
    /\ sop.query.ok
    /\ \A x \in 1..Len(embeddings) : Len(embeddings[x]) = Len(sop.query.vector)

\* C4: when the cosine similarity to the query exists, search returns the
\* filtered entries in descending cosine similarity (ascending distance =
\* 1 - sim), ties in insertion order, and the result is exactly the first k
\* of them.
C4_RankedFirstK ==
    (sop.op = "search" /\ Comparable) =>
        /\ Len(results) = Min(sop.n_results, Cardinality(Selected))
        /\ \A r \in 1..Len(results) :
               \E x \in Selected : RankOf(x) = r /\ results[r] = EntryOf(x)
        /\ \A r \in 1..(Len(results) - 1) :
               ~Greater(results[r + 1].distance.one_minus, results[r].distance.one_minus)

\* a search that reorders the store, cuts it at k, and returns a tie
C4_Witness ==
    /\ sop.op = "search"
    /\ sop.query.ok
    /\ Cardinality(Selected) > sop.n_results
    /\ Len(results) > 1
    /\ results[1].id # ids[1]
    /\ results[1].distance = results[2].distance
    /\ \E x, y \in Selected :
           x < y /\ results[1].id = ids[x] /\ results[2].id = ids[y]

\* the ids that add_documents derives from its documents
DerivedIds(docs) ==
    UNION {{chunk_id(docs[d].norm_id, x - 1) :
               x \in 1..Min(Len(docs[d].chunks), Len(docs[d].embeddings))} :
           d \in {e \in 1..Len(docs) : "embeddings" \in DOMAIN docs[e]}}


\* C5: add_documents leaves every entry already stored as it is (id, vector,
\* text, metadata), and count() grows by the number of derived ids that
\* were not stored: a chunk whose id exists is not written again.
C5_ExistingIdsKept ==
    [][sop'.op = "add" =>
          /\ Len(ids') = Len(ids) + Cardinality(DerivedIds(sop'.docs) \ Range(ids))
          /\ \A x \in 1..Len(ids) :
                 /\ ids'[x] = ids[x]
                 /\ embeddings'[x] = embeddings[x]
                 /\ documents'[x] = documents[x]
                 /\ metadatas'[x] = metadatas[x]]_vars

\* add_documents was given a chunk whose id is stored with another text and
\* another vector, and the store holds no more than the distinct ids
C5_Witness ==
    /\ sop.op = "add"
    /\ \E d \in 1..Len(sop.docs), x \in 1..Len(ids) :
           /\ "embeddings" \in DOMAIN sop.docs[d]
           /\ ids[x] = chunk_id(sop.docs[d].norm_id, 0)
           /\ documents[x] # sop.docs[d].chunks[1]
           /\ embeddings[x] # sop.docs[d].embeddings[1]
    /\ Cardinality(Range(ids)) = Len(ids)

\* C13: after add_documents (its _save having written the file) or clear, a
\* new VectorStore constructed on the same directory holds the same ids,
\* vectors, texts and metadata, in the same order, as the store that
\* performed the operation.
C13_ReopenedStoreIsTheSame ==
    (sop.op = "open" /\ sop.after \in {"add", "clear"} /\ sop.saved) =>
        Store = sop.memory

\* a store of several entries of two norms was saved and opened again
C13_Witness ==
    /\ sop.op = "open"
    /\ sop.after = "add"
    /\ sop.saved
    /\ Len(ids) >= 3
    /\ Len(sop.memory.ids) >= 3
    /\ \E x, y \in 1..Len(metadatas) : metadatas[x].norm_id # metadatas[y].norm_id

\* C14 as stated: when the process stops at any point of add_documents, the
\* rewriting of the file by _save included, the restarted store holds the
\* collection of the last snapshot that was written: the one on disk before
\* the call, or the one the interrupted call wrote.
C14_Original ==
    (sop.op = "restart" /\ sop.before # CORRUPT) =>
        \/ Store = Loaded(sop.before)
        \/ Store = AddDocs(sop.memory, sop.docs, 1)

\* C15 as stated: when the query embedding fails, or the query vector has
\* another dimension than the stored vectors, search raises the error to
\* its caller instead of returning a list.
C15_Original ==
    (sop.op = "search" /\ ids # <<>> /\ ~Comparable) => sop.raised

\* the id that the metadata of an entry spells
IdOfMetadata(meta) == meta.norm_id \o "_chunk_" \o IntStr(meta.chunk_index)

\* C21: after any sequence of add_documents, search and clear on a store
\* that started empty, the ids are pairwise distinct, the four lists have
\* the same length, and each id is '{norm_id}_chunk_{chunk_index}' of its
\* own metadata, with 0 <= chunk_index < total_chunks.
C21_IdsWellFormed ==
    /\ \A i, j \in 1..Len(ids) : i # j => ids[i] # ids[j]
    /\ Len(embeddings) = Len(ids)
    /\ Len(documents) = Len(ids)
    /\ Len(metadatas) = Len(ids)
    /\ \A i \in 1..Len(ids) :
           /\ ids[i] = IdOfMetadata(metadatas[i])
           /\ 0 <= metadatas[i].chunk_index
           /\ metadatas[i].chunk_index < metadatas[i].total_chunks

\* add_documents met an id it already held and a document with fewer
\* vectors than chunks, and the store holds three entries or more
C21_Witness ==
    /\ sop.op = "add"
    /\ Len(ids) >= 3
    /\ \E d \in 1..Len(sop.docs) :
           /\ "embeddings" \in DOMAIN sop.docs[d]
           /\ Len(sop.docs[d].embeddings) < Len(sop.docs[d].chunks)
    /\ \E i \in 1..Len(ids) : metadatas[i].chunk_index = 1
    /\ \E d \in 1..Len(sop.docs), i \in 1..Len(ids) :
           /\ ids[i] = sop.docs[d].norm_id \o "_chunk_0"
           /\ documents[i] # sop.docs[d].chunks[1]

(***************************************************************************)
(* EmbeddingsCache (backend/rag/embeddings_cache.py). The directory is a   *)
(* function from cache keys to file contents. md5 is taken as injective:   *)
(* the key of a file is the string that is hashed. A vector is a non-empty *)
(* tuple, and <<>> stands for None; json writes and reads back a list of   *)
(* numbers unchanged.                                                      *)
(***************************************************************************)
KeyPrefix  == 100
PreviewLen == 200

\* s[:n]
Prefix(s, n) == SubSeq(s, 1, Min(Len(s), n))

\* _get_cache_key, lines 20-24
get_cache_key(text_, norm_id, chunk_index) ==
    norm_id \o "_" \o IntStr(chunk_index) \o "_" \o Prefix(text_, KeyPrefix)

\* a file that json.load cannot parse
UNREADABLE == [state |-> "unreadable"]

NoFiles == <<>>

cache_get_unguarded(dir, text_, norm_id, chunk_index) ==
    IF get_cache_key(text_, norm_id, chunk_index) \notin DOMAIN dir THEN <<>>
    ELSE IF dir[get_cache_key(text_, norm_id, chunk_index)] = UNREADABLE THEN <<0>>
    ELSE dir[get_cache_key(text_, norm_id, chunk_index)].embedding

\* get, lines 30-54
cache_get(dir, text_, norm_id, chunk_index) ==
    LET cache_key == get_cache_key(text_, norm_id, chunk_index)
    IN IF cache_key \in DOMAIN dir /\ dir[cache_key] # UNREADABLE
       THEN dir[cache_key].embedding
       ELSE <<>>

\* a write ends in one of three ways: the file is written; open() fails and
\* the directory is as it was; the write fails after open() truncated the file
WriteOutcomes == {"written", "refused", "truncated"}

cache_set_lost(dir, text_, norm_id, chunk_index, embedding, outcome) == dir

cache_set_once(dir, text_, norm_id, chunk_index, embedding, outcome) ==
    IF get_cache_key(text_, norm_id, chunk_index) \in DOMAIN dir THEN dir
    ELSE (get_cache_key(text_, norm_id, chunk_index)
             :> [norm_id |-> norm_id, chunk_index |-> chunk_index,
                 text_preview |-> Prefix(text_, PreviewLen), embedding |-> embedding])
         @@ dir

\* set, lines 56-79; errors are printed and swallowed
cache_set(dir, text_, norm_id, chunk_index, embedding, outcome) ==
    LET cache_key == get_cache_key(text_, norm_id, chunk_index)
        data == [norm_id      |-> norm_id,
                 chunk_index  |-> chunk_index,
                 text_preview |-> Prefix(text_, PreviewLen),
                 embedding    |-> embedding]
    IN CASE outcome = "written"   -> (cache_key :> data) @@ dir
         [] outcome = "truncated" -> (cache_key :> UNREADABLE) @@ dir
         [] outcome = "refused"   -> dir

SetCall(text_, norm_id, chunk_index, embedding, outcome) ==
    [text |-> text_, norm_id |-> norm_id, chunk_index |-> chunk_index,
     embedding |-> embedding, outcome |-> outcome]

(***************************************************************************)
(* The cache's callers. Two texts longer than the key prefix that agree on *)
(* it; a norm id with an underscore (identify_norm falls back to the file  *)
(* name) whose key string is also that of another norm, index and text.    *)
(***************************************************************************)
MaxOps == 2

RECURSIVE Pad(_)
Pad(n) == IF n = 0 THEN "" ELSE "x" \o Pad(n - 1)

CacheArgs ==
    { [text |-> Pad(KeyPrefix) \o "a", norm_id |-> "NOM-001-SEDE-2012", chunk_index |-> 0],
      [text |-> Pad(KeyPrefix) \o "b", norm_id |-> "NOM-001-SEDE-2012", chunk_index |-> 0],
      [text |-> "resumen",   norm_id |-> "anexo_1", chunk_index |-> 2],
      [text |-> "2_resumen", norm_id |-> "anexo",   chunk_index |-> 1],
      [text |-> "2_resumen", norm_id |-> "anexo",   chunk_index |-> 2] }

CacheVectors == {<<1, 0>>, <<0, 1>>}

NoGet == [op |-> "none"]

CacheIdle ==
    /\ cache_dir = NoFiles
    /\ history = <<>>
    /\ got = NoGet

\* __init__, lines 15-18, on a directory that does not exist yet
CacheInit ==
    /\ cache_dir = NoFiles
    /\ history = <<>>
    /\ got = NoGet

CacheSet ==
    \E a \in CacheArgs, embedding \in CacheVectors, outcome \in WriteOutcomes :
        /\ Len(history) < MaxOps
        /\ cache_dir' = cache_set(cache_dir, a.text, a.norm_id, a.chunk_index,
                                  embedding, outcome)
        /\ history' = Append(history,
                             SetCall(a.text, a.norm_id, a.chunk_index, embedding, outcome))
        /\ got' = NoGet
        /\ UNCHANGED notCache

CacheGet ==
    \E a \in CacheArgs :
        /\ got' = [op |-> "get", text |-> a.text, norm_id |-> a.norm_id,
                   chunk_index |-> a.chunk_index,
                   result |-> cache_get(cache_dir, a.text, a.norm_id, a.chunk_index)]
        /\ UNCHANGED <<cache_dir, history>>
        /\ UNCHANGED notCache

\* clear, lines 81-87
CacheClear ==
    /\ cache_dir' = NoFiles
    /\ history' = <<>>
    /\ got' = NoGet
    /\ UNCHANGED notCache

CacheNext == CacheSet \/ CacheGet \/ CacheClear

(***************************************************************************)
(* Claims on the cache.                                                    *)
(***************************************************************************)
\* the set calls since the last clear all wrote their file
WritesSucceeded == \A p \in 1..Len(history) : history[p].outcome = "written"

SameTriple(p) ==
    /\ history[p].text = got.text
    /\ history[p].norm_id = got.norm_id
    /\ history[p].chunk_index = got.chunk_index

\* '{doc}_{idx}_{text[:100]}'
KeyString(c) ==
    c.norm_id \o "_" \o IntStr(c.chunk_index) \o "_"
        \o (IF Len(c.text) > 100 THEN SubSeq(c.text, 1, 100) ELSE c.text)

SameKey(p) == KeyString(history[p]) = KeyString(got)

Latest(ps) == CHOOSE p \in ps : \A q \in ps : q <= p

\* C9 as stated: with file I/O succeeding, get(text, doc, idx) returns the
\* vector most recently set under that (text, doc, idx) since the last clear,
\* and absent when nothing was set under it.
C9_Original ==
    (got.op = "get" /\ WritesSucceeded) =>
        LET ps == {p \in 1..Len(history) : SameTriple(p)}
        IN IF ps = {} THEN got.result = <<>>
           ELSE got.result = history[Latest(ps)].embedding

\* C9 amended: with file I/O succeeding, get(text, doc, idx) returns the
\* vector most recently set, since the last clear, under any arguments with
\* the same key string '{doc}_{idx}_{text[:100]}', and absent when nothing
\* was set under that key string.
C9_LatestUnderSameKey ==
    (got.op = "get" /\ WritesSucceeded) =>
        LET ps == {p \in 1..Len(history) : SameKey(p)}
        IN IF ps = {} THEN got.result = <<>>
           ELSE got.result = history[Latest(ps)].embedding

\* two sets under one key string with different texts and vectors, then a
\* get with the arguments of the first
C9_Witness ==
    /\ got.op = "get"
    /\ WritesSucceeded
    /\ Len(history) > 1
    /\ SameTriple(1)
    /\ SameKey(2)
    /\ history[2].text # history[1].text
    /\ history[2].embedding # history[1].embedding
    /\ got.result = history[2].embedding

\* the set calls since the last clear that wrote the file that the last get
\* read
Writers ==
    {p \in 1..Len(history) :
        /\ history[p].outcome = "written"
        /\ get_cache_key(history[p].text, history[p].norm_id, history[p].chunk_index)
               = get_cache_key(got.text, got.norm_id, got.chunk_index)}

\* same document, same index, and texts that agree on their first 100
\* characters
SameChunk(c, d) ==
    /\ c.norm_id = d.norm_id
    /\ c.chunk_index = d.chunk_index
    /\ SubSeq(c.text, 1, Min(Len(c.text), 100)) = SubSeq(d.text, 1, Min(Len(d.text), 100))

\* C28 as stated: a vector stored with set(text, doc, idx, v) is returned by
\* get(text2, doc2, idx2) only if doc2 = doc, idx2 = idx and text2 agrees
\* with text on its first 100 characters (the hash being collision-free on
\* distinct key strings).
C28_Original ==
    (got.op = "get" /\ got.result # <<>>) =>
        /\ Writers # {}
        /\ got.result = history[Latest(Writers)].embedding
        /\ SameChunk(history[Latest(Writers)], got)

(***************************************************************************)
(* EmbeddingsGenerator.generate_document_embeddings                        *)
(* (HF_UPLOAD/backend/rag/embeddings.py, lines 41-161). The embedding      *)
(* service (self.generate_embeddings) answers a call with one vector for   *)
(* each text, or raises; its vector for a text is Embed(text). <<>> stands *)
(* for the None placeholder: no vector is empty.                           *)
(***************************************************************************)
batch_size      == 2
MaxChunks       == 3
MaxFailures     == 2
COOLDOWN_TENTHS == 600
PACE_TENTHS     == 6

\* the text of the chunk at index i of a document
ChunkText(i) == "parrafo " \o IntStr(i)

ChunksOf(n) == [x \in 1..n |-> ChunkText(x - 1)]

IndexOfText(t) == CHOOSE i \in 0..MaxChunks : ChunkText(i) = t

\* the vector of the service for a text, and the one an earlier run cached
Embed(t) == <<IndexOfText(t) + 1, 1>>
Cached(t) == <<IndexOfText(t) + 1, 0>>

\* str(e) of the errors the service raises
ServiceErrors == {"429 Too Many Requests", "Quota exceeded for embeddings", "connection reset"}

AlwaysRateLimit(message) == TRUE

\* line 125: "429" in str(e) or "quota" in str(e).lower()
IsRateLimit(message) == Contains(message, "429") \/ Contains(Lower(message), "quota")

HitNever(cached_embedding) == FALSE

\* line 90: if cached_embedding
Hit(cached_embedding) == cached_embedding # <<>>

GetEvent(d, idx, r)  == [ev |-> "get", doc |-> d, chunk_index |-> idx, result |-> r]
SleepEvent(tenths)   == [ev |-> "sleep", tenths |-> tenths]
CallEvent(d, i, texts, ok, vectors, message) ==
    [ev |-> "call", doc |-> d, batch |-> i, texts |-> texts, ok |-> ok,
     vectors |-> vectors, message |-> message]

doc == e_docs[doc_i]

\* line 79: batch = chunks[i:i + batch_size]
batch == SubSeq(doc.chunks, batch_i + 1, Min(batch_i + batch_size, Len(doc.chunks)))

\* lines 84-98: the cache check of the batch, item by item
RECURSIVE CheckLoop(_, _)
CheckLoop(j, st) ==
    IF j > Len(batch) THEN st
    ELSE LET chunk_idx == batch_i + j - 1
             cached_embedding ==
                 IF use_cache
                 THEN cache_get(cache_dir, batch[j], doc.norm_id, chunk_idx)
                 ELSE <<>>
             looked == IF use_cache
                       THEN Append(st.trace, GetEvent(doc_i, chunk_idx, cached_embedding))
                       ELSE st.trace
         IN CheckLoop(j + 1,
                IF use_cache /\ Hit(cached_embedding)
                THEN [st EXCEPT !.batch_embeddings = Append(@, cached_embedding),
                                !.trace = looked]
                ELSE [st EXCEPT !.batch_embeddings = Append(@, <<>>),
                                !.texts_to_embed = Append(@, batch[j]),
                                !.indices_to_embed = Append(@, chunk_idx),
                                !.trace = looked])

FirstVector(new_embeddings, new_emb_idx) == new_embeddings[1]

\* line 110: embedding = new_embeddings[new_emb_idx]
NewEmbedding(new_embeddings, new_emb_idx) == new_embeddings[new_emb_idx]

\* lines 107-118 (and 135-143): fill the placeholders and cache the vectors
RECURSIVE FillLoop(_, _, _, _)
FillLoop(j, new_emb_idx, new_embeddings, st) ==
    IF j > Len(st.batch_embeddings) THEN st
    ELSE IF st.batch_embeddings[j] # <<>>
    THEN FillLoop(j + 1, new_emb_idx, new_embeddings, st)
    ELSE LET embedding == NewEmbedding(new_embeddings, new_emb_idx)
             chunk_idx == indices_to_embed[new_emb_idx]
         IN FillLoop(j + 1, new_emb_idx + 1, new_embeddings,
                [batch_embeddings |-> [st.batch_embeddings EXCEPT ![j] = embedding],
                 cache_dir |->
                     IF use_cache
                     THEN cache_set(st.cache_dir, batch[j], doc.norm_id, chunk_idx,
                                    embedding, disk)
                     ELSE st.cache_dir,
                 history |->
                     IF use_cache
                     THEN Append(st.history,
                                 SetCall(batch[j], doc.norm_id, chunk_idx, embedding, disk))
                     ELSE st.history])

Filled(new_embeddings) ==
    FillLoop(1, 1, new_embeddings,
             [batch_embeddings |-> batch_embeddings, cache_dir |-> cache_dir,
              history |-> history])

\* what the service answers when it does not raise
Answer(texts) == [x \in 1..Len(texts) |-> Embed(texts[x])]

Failures == Cardinality({p \in 1..Len(trace) : trace[p].ev = "call" /\ ~trace[p].ok})

\* line 150, and the step of the for loop of line 78
EndBatch(filled) ==
    /\ all_embeddings' = all_embeddings \o filled
    /\ batch_embeddings' = <<>>
    /\ texts_to_embed' = <<>>
    /\ indices_to_embed' = <<>>
    /\ IF batch_i + batch_size < Len(doc.chunks)
       THEN batch_i' = batch_i + batch_size /\ epc' = "batch"
       ELSE batch_i' = batch_i /\ epc' = "enddoc"

(***************************************************************************)
(* The documents: one or two, of up to MaxChunks chunks, of two norms; the *)
(* cache holds the vectors an earlier run left for some chunks of the      *)
(* first norm.                                                             *)
(***************************************************************************)
NewDoc(norm_id, n) ==
    [norm_id |-> norm_id, filename |-> norm_id \o ".pdf", chunks |-> ChunksOf(n)]

DocumentLists ==
    {<<NewDoc("NOM-001-SEDE-2012", n)>> : n \in 0..MaxChunks}
        \cup {<<NewDoc("NOM-001-SEDE-2012", p[1]), NewDoc(p[2], p[3])>> :
                 p \in {1, MaxChunks} \X {"NOM-001-SEDE-2012", "NOM-029-STPS-2011"}
                           \X {1, MaxChunks}}

RECURSIVE EarlierRun(_, _, _)
EarlierRun(idxs, dir, hist) ==
    IF idxs = {} THEN [cache_dir |-> dir, history |-> hist]
    ELSE LET i == CHOOSE x \in idxs : \A y \in idxs : x <= y
         IN EarlierRun(idxs \ {i},
                cache_set(dir, ChunkText(i), "NOM-001-SEDE-2012", i,
                          Cached(ChunkText(i)), "written"),
                Append(hist, SetCall(ChunkText(i), "NOM-001-SEDE-2012", i,
                                     Cached(ChunkText(i)), "written")))

EmbIdle ==
    /\ e_docs = <<>>
    /\ use_cache = FALSE
    /\ disk = "written"
    /\ epc = "idle"
    /\ doc_i = 0
    /\ batch_i = 0
    /\ all_embeddings = <<>>
    /\ batch_embeddings = <<>>
    /\ texts_to_embed = <<>>
    /\ indices_to_embed = <<>>
    /\ trace = <<>>

\* the call is made: lines 53-65
EmbInit ==
    /\ e_docs \in DocumentLists
    /\ use_cache \in BOOLEAN
    /\ disk \in IF use_cache THEN WriteOutcomes ELSE {"written"}
    /\ \E idxs \in SUBSET (0..(MaxChunks - 1)) :
          LET run == EarlierRun(idxs, NoFiles, <<>>)
          IN cache_dir = run.cache_dir /\ history = run.history
    /\ got = NoGet
    /\ epc = "doc"
    /\ doc_i = 1
    /\ batch_i = 0
    /\ all_embeddings = <<>>
    /\ batch_embeddings = <<>>
    /\ texts_to_embed = <<>>
    /\ indices_to_embed = <<>>
    /\ trace = <<>>

\* lines 67-76: the next document
StartDoc ==
    /\ epc = "doc"
    /\ all_embeddings' = <<>>
    /\ batch_i' = 0
    /\ epc' = IF Len(doc.chunks) = 0 THEN "enddoc" ELSE "batch"
    /\ UNCHANGED <<e_docs, use_cache, disk, doc_i, batch_embeddings, texts_to_embed,
                   indices_to_embed, trace, cacheVars>>
    /\ UNCHANGED notEmb

\* lines 79-101, and line 150 when nothing is left to embed
CheckCache ==
    /\ epc = "batch"
    /\ LET st == CheckLoop(1, [batch_embeddings |-> <<>>, texts_to_embed |-> <<>>,
                               indices_to_embed |-> <<>>, trace |-> trace])
       IN /\ trace' = st.trace
          /\ IF st.texts_to_embed # <<>>
             THEN /\ batch_embeddings' = st.batch_embeddings
                  /\ texts_to_embed' = st.texts_to_embed
                  /\ indices_to_embed' = st.indices_to_embed
                  /\ epc' = "call"
                  /\ UNCHANGED <<all_embeddings, batch_i>>
             ELSE EndBatch(st.batch_embeddings)
    /\ UNCHANGED <<e_docs, use_cache, disk, doc_i, cacheVars>>
    /\ UNCHANGED notEmb

\* lines 102-122 when the service answers, lines 124-148 when it raises
FirstCall ==
    /\ epc = "call"
    /\ \/ LET new_embeddings == Answer(texts_to_embed)
              st == Filled(new_embeddings)
          IN /\ cache_dir' = st.cache_dir
             /\ history' = st.history
             /\ trace' = trace
                    \o <<CallEvent(doc_i, batch_i, texts_to_embed, TRUE, new_embeddings, "")>>
                    \o (IF batch_i + batch_size < Len(doc.chunks)
                        THEN <<SleepEvent(PACE_TENTHS * Len(texts_to_embed))>>
                        ELSE <<>>)
             /\ EndBatch(st.batch_embeddings)
       \/ \E message \in ServiceErrors :
             /\ Failures < MaxFailures
             /\ trace' = Append(trace,
                    CallEvent(doc_i, batch_i, texts_to_embed, FALSE, <<>>, message))
             /\ epc' = IF IsRateLimit(message) THEN "cooldown" ELSE "raised"
             /\ UNCHANGED <<cache_dir, history, all_embeddings, batch_embeddings,
                            texts_to_embed, indices_to_embed, batch_i>>
    /\ UNCHANGED <<e_docs, use_cache, disk, doc_i, got>>
    /\ UNCHANGED notEmb

\* line 128: time.sleep(60)
Cooldown ==
    /\ epc = "cooldown"
    /\ trace' = Append(trace, SleepEvent(COOLDOWN_TENTHS))
    /\ epc' = "retry"
    /\ UNCHANGED <<e_docs, use_cache, disk, doc_i, batch_i, all_embeddings,
                   batch_embeddings, texts_to_embed, indices_to_embed, cacheVars>>
    /\ UNCHANGED notEmb

\* lines 130-146: the retry
RetryCall ==
    /\ epc = "retry"
    /\ \/ LET new_embeddings == Answer(texts_to_embed)
              st == Filled(new_embeddings)
          IN /\ cache_dir' = st.cache_dir
             /\ history' = st.history
             /\ trace' = Append(trace,
                    CallEvent(doc_i, batch_i, texts_to_embed, TRUE, new_embeddings, ""))
             /\ EndBatch(st.batch_embeddings)
       \/ \E message \in ServiceErrors :
             /\ Failures < MaxFailures
             /\ trace' = Append(trace,
                    CallEvent(doc_i, batch_i, texts_to_embed, FALSE, <<>>, message))
             /\ epc' = "raised"
             /\ UNCHANGED <<cache_dir, history, all_embeddings, batch_embeddings,
                            texts_to_embed, indices_to_embed, batch_i>>
    /\ UNCHANGED <<e_docs, use_cache, disk, doc_i, got>>
    /\ UNCHANGED notEmb

\* line 158: doc['embeddings'] = all_embeddings, and line 161 after the last
EndDoc ==
    /\ epc = "enddoc"
    /\ e_docs' = [e_docs EXCEPT ![doc_i] = [embeddings |-> all_embeddings] @@ @]
    /\ IF doc_i < Len(e_docs)
       THEN doc_i' = doc_i + 1 /\ epc' = "doc"
       ELSE doc_i' = doc_i /\ epc' = "returned"
    /\ UNCHANGED <<use_cache, disk, batch_i, all_embeddings, batch_embeddings,
                   texts_to_embed, indices_to_embed, trace, cacheVars>>
    /\ UNCHANGED notEmb

EmbNext == StartDoc \/ CheckCache \/ FirstCall \/ Cooldown \/ RetryCall \/ EndDoc

(***************************************************************************)
(* Claims on generate_document_embeddings, stated on the trace of the call:*)
(* what cache.get returned for each chunk, the service calls with what was *)
(* sent and answered, and the sleeps.                                      *)
(***************************************************************************)
\* the lookups of chunk idx of document d that returned a vector
LookedUp(d, idx) ==
    {p \in 1..Len(trace) :
        /\ trace[p].ev = "get"
        /\ trace[p].doc = d
        /\ trace[p].chunk_index = idx
        /\ trace[p].result # <<>>}

\* the vector due at position x of document d: the one the cache returned,
\* else the one of the service for the chunk's text
ExpectedVector(d, x) ==
    IF LookedUp(d, x - 1) # {}
    THEN trace[CHOOSE p \in LookedUp(d, x - 1) : TRUE].result
    ELSE Embed(e_docs[d].chunks[x])

\* C6: after generate_document_embeddings returns, each document's
\* 'embeddings' has the length of its 'chunks', holds no placeholder, and
\* its i-th vector is the i-th chunk's: the cached one when the cache held
\* one, else the service's for that text.
C6_EmbeddingsAligned ==
    epc = "returned" =>
        \A d \in 1..Len(e_docs) :
            /\ "embeddings" \in DOMAIN e_docs[d]
            /\ Len(e_docs[d].embeddings) = Len(e_docs[d].chunks)
            /\ \A x \in 1..Len(e_docs[d].chunks) :
                   /\ e_docs[d].embeddings[x] # <<>>
                   /\ e_docs[d].embeddings[x] = ExpectedVector(d, x)

\* a document of more than one batch returned, its first batch a miss
\* followed by a hit, after a rate-limit retry
C6_Witness ==
    /\ epc = "returned"
    /\ \E d \in 1..Len(e_docs) :
           /\ Len(e_docs[d].chunks) > batch_size
           /\ LookedUp(d, 0) = {}
           /\ LookedUp(d, 1) # {}
           /\ e_docs[d].embeddings[1] # e_docs[d].embeddings[2]
    /\ \E p \in 1..Len(trace) : trace[p].ev = "sleep" /\ trace[p].tenths = 600

IsCall(p) == trace[p].ev = "call"

\* the calls made for the batch of the call at p, before it
EarlierCalls(p) ==
    {q \in 1..(p - 1) :
        IsCall(q) /\ trace[q].doc = trace[p].doc /\ trace[q].batch = trace[p].batch}

RateLimitMessage(m) == Contains(m, "429") \/ Contains(Lower(m), "quota")

\* C7: at most two service calls for a batch; the second only right after a
\* 60-second sleep that follows a first call whose error message contains
\* '429' or (in any case) 'quota'; an error of the second call, or an error
\* of the first without these markers, is raised to the caller at once.
C7_RetryOnceOnRateLimit ==
    /\ \A p \in 1..Len(trace) :
           IsCall(p) =>
               /\ Cardinality(EarlierCalls(p)) <= 1
               /\ EarlierCalls(p) # {} =>
                      /\ EarlierCalls(p) = {p - 2}
                      /\ ~trace[p - 2].ok
                      /\ RateLimitMessage(trace[p - 2].message)
                      /\ trace[p - 1].ev = "sleep"
                      /\ trace[p - 1].tenths = 600
               /\ (~trace[p].ok
                      /\ (EarlierCalls(p) # {} \/ ~RateLimitMessage(trace[p].message)))
                      => (p = Len(trace) /\ epc = "raised")
    /\ epc = "raised" => (trace # <<>> /\ IsCall(Len(trace)) /\ ~trace[Len(trace)].ok)

\* the retry of a batch failed and the error was raised
C7_Witness ==
    /\ epc = "raised"
    /\ trace # <<>>
    /\ IsCall(Len(trace))
    /\ EarlierCalls(Len(trace)) # {}

\* the chunk indices of the batch of document d that starts at i
BatchIndices(d, i) ==
    {idx \in i..(i + batch_size - 1) : idx < Len(e_docs[d].chunks)}

Uncached(d, i) == {idx \in BatchIndices(d, i) : LookedUp(d, idx) = {}}

RECURSIVE Ascending(_)
Ascending(S) ==
    IF S = {} THEN <<>>
    ELSE LET m == CHOOSE x \in S : \A y \in S : x <= y
         IN <<m>> \o Ascending(S \ {m})

OkCalls(d, i) ==
    {p \in 1..Len(trace) :
        IsCall(p) /\ trace[p].ok /\ trace[p].doc = d /\ trace[p].batch = i}

PacedCalls ==
    {p \in 1..Len(trace) :
        /\ trace[p].ev = "call"
        /\ trace[p].ok
        /\ Len(trace[p].texts) > 0
        /\ trace[p].batch + batch_size < Len(e_docs[trace[p].doc].chunks)
        /\ \E q \in (p + 1)..Len(trace) :
               trace[q].ev = "call" /\ trace[q].doc = trace[p].doc}

\* C24 as stated: between two consecutive batches of a document, when the
\* earlier batch succeeded with n > 0 freshly computed items, on its first
\* service call or on its rate-limit retry, the generator waits
\* n x (60 / 100) seconds before the next batch's service call.
C24_Original ==
    \A p \in PacedCalls : trace[p + 1] = SleepEvent(PACE_TENTHS * Len(trace[p].texts))

(***************************************************************************)
(* PDFProcessor.chunk_text (backend/rag/pdf_processor.py, lines 112-146).  *)
(* Positions are 0-based as in the source, and a slice takes a negative    *)
(* bound from the end of the string, as Python does.                       *)
(***************************************************************************)
MaxText      == 6
MaxChunkSize == 5
MaxIter      == 8

\* s[a:b]
PySlice(s, a, b) ==
    LET lo == IF a < 0 THEN (IF a + Len(s) < 0 THEN 0 ELSE a + Len(s)) ELSE Min(a, Len(s))
        hi == IF b < 0 THEN (IF b + Len(s) < 0 THEN 0 ELSE b + Len(s)) ELSE Min(b, Len(s))
    IN IF lo >= hi THEN "" ELSE SubSeq(s, lo + 1, hi)

\* s.rfind(c): the last index of character c, -1 when absent
RFind(s, c) ==
    LET ps == {x \in 1..Len(s) : Ch(s, x) = c}
    IN IF ps = {} THEN -1 ELSE (CHOOSE x \in ps : \A y \in ps : y <= x) - 1

Max(a, b) == IF a > b THEN a ELSE b

\* s.strip()
StripWs(s) ==
    LET ws == Spaces \cup {"\n"}
        a  == SkipSet(s, 1, ws)
        b  == SkipSetBack(s, Len(s), ws)
    IN IF a > b THEN "" ELSE SubSeq(s, a, b)

BreakAlways(break_point, size) == TRUE

\* line 139: break_point > chunk_size * 0.5
Reasonable(break_point, size) == 2 * break_point > size

\* lines 130-141: the window of one iteration, [chunk, end]
Window(text_, start_, size) ==
    LET end   == start_ + size
        chunk == PySlice(text_, start_, end)
        break_point == Max(RFind(chunk, "."), RFind(chunk, "\n"))
    IN IF end < Len(text_) /\ Reasonable(break_point, size)
       THEN [chunk |-> PySlice(chunk, 0, break_point + 1), end |-> start_ + break_point + 1]
       ELSE [chunk |-> chunk, end |-> end]

\* the texts: every string of up to MaxText characters over a letter, the
\* full stop and the line break
Alphabet == {"a", ".", "\n"}

RECURSIVE TextsOfLen(_)
TextsOfLen(n) ==
    IF n = 0 THEN {""} ELSE {t \o c : t \in TextsOfLen(n - 1), c \in Alphabet}

Texts == UNION {TextsOfLen(n) : n \in 0..MaxText}

\* longer texts, chunked with one larger chunk_size
LongChunkSize == 9

LongTexts == {"aaaaa.aaaa", "aaaaaaaaaa", "aaa.aa\naaaaa"}

\* the calls: [text, chunk_size]
ChunkCalls ==
    (Texts \X (1..MaxChunkSize)) \cup (LongTexts \X {LongChunkSize})

\* lines 125-127
ChunkInit ==
    /\ \E call \in ChunkCalls :
          /\ full_text = call[1]
          /\ chunk_size = call[2]
    /\ overlap \in 0..(chunk_size - 1)
    /\ start = 0
    /\ chunks = <<>>
    /\ cpc = "loop"

\* one iteration of the while loop, lines 129-144; the model follows a run
\* for MaxIter iterations
ChunkStep ==
    /\ cpc = "loop"
    /\ start < Len(full_text)
    /\ Len(chunks) < MaxIter
    /\ LET w == Window(full_text, start, chunk_size)
       IN /\ chunks' = Append(chunks, StripWs(w.chunk))
          /\ start' = w.end - overlap
    /\ UNCHANGED <<full_text, chunk_size, overlap, cpc>>
    /\ UNCHANGED notChunk

\* line 146, when the loop condition of line 129 fails
ChunkReturn ==
    /\ cpc = "loop"
    /\ ~(start < Len(full_text))
    /\ cpc' = "returned"
    /\ UNCHANGED <<full_text, chunk_size, overlap, start, chunks>>
    /\ UNCHANGED notChunk

ChunkNext == ChunkStep \/ ChunkReturn

\* C10 as stated: for chunk_size >= 1 and 0 <= overlap < chunk_size, the
\* window start strictly increases on every iteration of chunk_text (so the
\* call terminates).
C10_Original ==
    [][(chunk_size >= 1 /\ overlap >= 0 /\ overlap < chunk_size /\ chunks' # chunks)
          => start' > start]_vars

\* the windows of the first n iterations of a call, as the loop of lines
\* 129-144 takes them: [start, chunk, end]
RECURSIVE WindowsFrom(_, _, _, _, _)

WindowThen(text_, start_, size, ov, n, w) ==
    <<[start |-> start_, chunk |-> w.chunk, end |-> w.end]>>
        \o WindowsFrom(text_, w.end - ov, size, ov, n - 1)

WindowsFrom(text_, start_, size, ov, n) ==
    IF n = 0 THEN <<>>
    ELSE WindowThen(text_, start_, size, ov, n, Window(text_, start_, size))

\* the accepted windows of the call, one for each chunk appended
AcceptedWindows == WindowsFrom(full_text, 0, chunk_size, overlap, Len(chunks))

\* every window but the first without its leading ov characters, concatenated
RECURSIVE TrimmedConcat(_, _, _)
TrimmedConcat(ws, i, ov) ==
    IF i > Len(ws) THEN ""
    ELSE (IF i = 1 THEN ws[i].chunk ELSE PySlice(ws[i].chunk, ov, Len(ws[i].chunk)))
            \o TrimmedConcat(ws, i + 1, ov)

\* every position of the text lies in an accepted window
Covered(ws) ==
    \A p \in 0..(Len(full_text) - 1) :
        \E i \in 1..Len(ws) : ws[i].start <= p /\ p < ws[i].end

\* the first window starts at 0, each later one overlap characters before
\* the accepted end of the one before
Chained(ws) ==
    /\ Len(ws) >= 1 => ws[1].start = 0
    /\ \A i \in 2..Len(ws) : ws[i].start = ws[i - 1].end - overlap

\* the chunks are the windows, stripped
ChunksAreWindows(ws) ==
    /\ Len(chunks) = Len(ws)
    /\ \A i \in 1..Len(ws) : chunks[i] = StripWs(ws[i].chunk)

\* C11 as stated: when chunk_text has returned (overlap >= 0), every position
\* of the text lies in an accepted window, the windows are chained by the
\* overlap, the windows without their leading overlap concatenate to the
\* text, and the chunks are the stripped windows.
C11_Original ==
    (cpc = "returned" /\ overlap >= 0) =>
        /\ Covered(AcceptedWindows)
        /\ Chained(AcceptedWindows)
        /\ TrimmedConcat(AcceptedWindows, 1, overlap) = full_text
        /\ ChunksAreWindows(AcceptedWindows)

\* the last index of a full stop or line break in s, -1 when there is none
LastBreak(s) ==
    IF \A x \in 1..Len(s) : Ch(s, x) \notin {".", "\n"} THEN -1
    ELSE (CHOOSE x \in 1..Len(s) :
             /\ Ch(s, x) \in {".", "\n"}
             /\ \A y \in (x + 1)..Len(s) : Ch(s, y) \notin {".", "\n"}) - 1

\* the characters of the text at the positions from_ .. from_ + size - 1
\* (0-based): size characters, fewer where the window leaves the text
TextWindow(from_, size) ==
    SubSeq(full_text, Max(from_, 0) + 1, Min(from_ + size, Len(full_text)))

\* what C12 says of a window: cut after its last break when that lies past
\* half of chunk_size and the window does not reach the end of the text, the
\* full window otherwise
CutWindow(w, reaches_end, size) ==
    IF ~reaches_end /\ 2 * LastBreak(w) > size
    THEN SubSeq(w, 1, LastBreak(w) + 1)
    ELSE w

\* the chunk C12 describes for the window that starts at from_
ChunkAsStated(from_) ==
    StripWs(CutWindow(TextWindow(from_, chunk_size),
                      from_ + chunk_size >= Len(full_text), chunk_size))

\* a window that does not reach the end of the text holds chunk_size
\* characters, and no window holds more
FullWindow(from_) ==
    /\ Len(TextWindow(from_, chunk_size)) <= chunk_size
    /\ from_ + chunk_size < Len(full_text)
           => Len(TextWindow(from_, chunk_size)) = chunk_size

\* C12 as stated: each chunk returned is the stripped text of a window of at
\* most chunk_size characters; a window that does not reach the end of the
\* text holds chunk_size characters, cut after its last '.' or line break
\* when that lies past half of chunk_size.
C12_Original ==
    cpc = "returned" =>
        \A i \in 1..Len(chunks) :
            /\ FullWindow(AcceptedWindows[i].start)
            /\ chunks[i] = ChunkAsStated(AcceptedWindows[i].start)

\* the window reaches a position of the text beyond the end of the window
\* before it
ReachesBeyond(w, before) == Min(w.end, Len(full_text)) > Min(before.end, Len(full_text))

EachReachesBeyond(ws) == \A i \in 2..Len(ws) : ReachesBeyond(ws[i], ws[i - 1])

\* C29 as stated: every chunk after the first covers at least one position
\* of the text beyond the end of the window of the chunk before it; in
\* particular a (non-empty) text of at most chunk_size characters yields
\* exactly one chunk.
C29_Original ==
    /\ EachReachesBeyond(AcceptedWindows)
    /\ (cpc = "returned" /\ Len(full_text) >= 1 /\ Len(full_text) <= chunk_size)
           => Len(chunks) = 1

(***************************************************************************)
(* IntegratorAgent._classify_installation (backend/agents/                 *)
(* integrator_agent.py, lines 74-115) on a list of verified                *)
(* non-conformities: high, medium or low severity, or no 'severity' key.   *)
(***************************************************************************)
MaxVerified == 3

VerifiedChoices ==
    {[description |-> "Conductor expuesto", severity |-> s] : s \in {"high", "medium", "low"}}
        \cup {[description |-> "Conductor expuesto"]}

VerifiedLists == UNION {[1..n -> VerifiedChoices] : n \in 0..MaxVerified}

CountAny(ncs, severity) == Len(ncs)

\* lines 89-91: sum(1 for nc in verified_non_conformities if nc.get('severity') == s);
\* nc.get gives None for an item without the key
CountSeverity(ncs, severity) ==
    Cardinality({k \in 1..Len(ncs) :
        (IF "severity" \in DOMAIN ncs[k] THEN ncs[k].severity ELSE NONE) = severity})

\* lines 96-99, 101-104 and 106-109: the three justifications
JustifyHigh(n) ==
    "Se detectaron " \o IntStr(n) \o " no conformidad(es) CRITICA(S) que representan riesgo significativo para la seguridad. Requiere correccion inmediata."

JustifyMedium(n) ==
    "Se detectaron " \o IntStr(n) \o " no conformidad(es) de severidad media. La instalacion no cumple con los requisitos normativos."

JustifyTotal(n) ==
    "Se detectaron " \o IntStr(n) \o " no conformidad(es). La instalacion requiere correcciones para cumplir con la normativa."

\* lines 112-115
Conforme ==
    [status |-> "CONFORME",
     justification |-> "La instalacion cumple con todos los requisitos normativos verificados. No se detectaron no conformidades."]

NoConforme(justification) == [status |-> "NO CONFORME", justification |-> justification]

\* lines 87-110, given the counts of lines 89-93
ByCounts(high_severity, medium_severity, total_nc) ==
    IF high_severity > 0 THEN NoConforme(JustifyHigh(high_severity))
    ELSE IF medium_severity > 0 THEN NoConforme(JustifyMedium(medium_severity))
    ELSE NoConforme(JustifyTotal(total_nc))

\* _classify_installation, lines 74-115
classify_installation(ncs) ==
    IF Len(ncs) > 0
    THEN ByCounts(CountSeverity(ncs, "high"), CountSeverity(ncs, "medium"), Len(ncs))
    ELSE Conforme

NoClassification == [status |-> "none"]

IntegIdle ==
    /\ verified_nc = <<>>
    /\ classification = NoClassification
    /\ ipc = "idle"

IntegInit ==
    /\ verified_nc \in VerifiedLists
    /\ classification = NoClassification
    /\ ipc = "input"

ClassifyInstallation ==
    /\ ipc = "input"
    /\ classification' = classify_installation(verified_nc)
    /\ ipc' = "classified"
    /\ UNCHANGED verified_nc
    /\ UNCHANGED notInteg

(***************************************************************************)
(* Claims on _classify_installation.                                       *)
(***************************************************************************)
\* the entries of the list with the given severity
WithSeverity(s) ==
    {k \in 1..Len(verified_nc) :
        "severity" \in DOMAIN verified_nc[k] /\ verified_nc[k].severity = s}

\* the number that the justification reports
Reported(n) == SubSeq(classification.justification, 1, Len("Se detectaron " \o IntStr(n) \o " "))
                   = "Se detectaron " \o IntStr(n) \o " "

\* C27: _classify_installation returns status 'CONFORME' exactly when the
\* list is empty; for a non-empty list the status is 'NO CONFORME' and the
\* justification reports the number of high-severity items if there is any,
\* else the number of medium-severity items if there is any, else the total
\* number of items.
C27_StrictClassification ==
    ipc = "classified" =>
        /\ classification.status = "CONFORME" <=> verified_nc = <<>>
        /\ verified_nc # <<>> =>
              /\ classification.status = "NO CONFORME"
              /\ Reported(IF WithSeverity("high") # {}
                          THEN Cardinality(WithSeverity("high"))
                          ELSE IF WithSeverity("medium") # {}
                          THEN Cardinality(WithSeverity("medium"))
                          ELSE Len(verified_nc))

\* three items, none high and two medium: the two are reported
C27_Witness ==
    /\ ipc = "classified"
    /\ Len(verified_nc) = 3
    /\ WithSeverity("high") = {}
    /\ Cardinality(WithSeverity("medium")) = 2
    /\ classification = NoConforme(JustifyMedium(2))

(***************************************************************************)
(* Unreadable persisted data: the store and the cache in one process. The  *)
(* store's persistence operations run while the cache is untouched; the    *)
(* process that constructed the store over an unreadable snapshot goes on  *)
(* to use the cache. The two share no state.                               *)
(***************************************************************************)
CacheFresh == cache_dir = NoFiles /\ history = <<>> /\ got = NoGet

\* the store was constructed over the snapshot that the first failed _save
\* of the directory left truncated
FoundUnreadable ==
    /\ sop.op = "open"
    /\ sop.after = "add"
    /\ data_file = CORRUPT
    /\ Len(sop.memory.ids) <= 1

StoreSteps == CacheFresh /\ (AddDocuments \/ Clear \/ Reopen \/ StopInAdd)

CacheSteps == FoundUnreadable /\ CacheNext

PersistNext == StoreSteps \/ CacheSteps

\* the cache file of the last get exists and cannot be parsed
GotUnreadable ==
    /\ got.op = "get"
    /\ get_cache_key(got.text, got.norm_id, got.chunk_index) \in DOMAIN cache_dir
    /\ cache_dir[get_cache_key(got.text, got.norm_id, got.chunk_index)] = UNREADABLE

\* C16: unreadable persisted data are taken as absent and nothing is raised:
\* get on a cache file that cannot be parsed returns absent, and a store
\* constructed over an unreadable snapshot file is empty (count() = 0).
C16_UnreadableIsAbsent ==
    /\ GotUnreadable => got.result = <<>>
    /\ (sop.op \in {"open", "restart"} /\ data_file = CORRUPT) => count = 0

\* a store that held an entry was constructed again over its truncated
\* snapshot, and a get met a truncated cache file
C16_Witness ==
    /\ sop.op = "open"
    /\ data_file = CORRUPT
    /\ Len(sop.memory.ids) = 1
    /\ count = 0
    /\ GotUnreadable
    /\ got.result = <<>>

(***************************************************************************)
(* Resuming: generate_document_embeddings raised, and the caller runs it   *)
(* again over the same documents, on the cache directory as the failed     *)
(* run left it. The call on which the failed run raised is kept as the     *)
(* first event of the trace of the rerun.                                  *)
(***************************************************************************)
EarlierEvent(run_trace) == [ev |-> "earlier", failed |-> run_trace[Len(run_trace)]]

IsRerun == trace # <<>> /\ trace[1].ev = "earlier"

\* the second call of generate_document_embeddings (lines 53-65)
Rerun ==
    /\ epc = "raised"
    /\ ~IsRerun
    /\ trace' = <<EarlierEvent(trace)>>
    /\ epc' = "doc"
    /\ doc_i' = 1
    /\ batch_i' = 0
    /\ all_embeddings' = <<>>
    /\ batch_embeddings' = <<>>
    /\ texts_to_embed' = <<>>
    /\ indices_to_embed' = <<>>
    /\ UNCHANGED <<e_docs, use_cache, disk, cacheVars>>
    /\ UNCHANGED notEmb

ResumeNext == EmbNext \/ Rerun

\* the call on which the earlier run failed
FailedCall == trace[1].failed

\* the call at position p of the rerun is for the failed batch or a later one
NotBefore(p, failed) ==
    \/ trace[p].doc > failed.doc
    \/ trace[p].doc = failed.doc /\ trace[p].batch >= failed.batch

OnlyFromFailedBatch ==
    \A p \in 2..Len(trace) : trace[p].ev = "call" => NotBefore(p, FailedCall)

ChunkIdle ==
    /\ full_text = ""
    /\ chunk_size = 1
    /\ overlap = 0
    /\ start = 0
    /\ chunks = <<>>
    /\ cpc = "idle"

(***************************************************************************)
(* The specifications: one component runs, the others stay idle.           *)
(***************************************************************************)
ChunkStart  == ChunkInit /\ ParserIdle /\ StoreIdle /\ CacheIdle /\ EmbIdle /\ IntegIdle

ParserStart == ParserInit /\ StoreIdle /\ CacheIdle /\ EmbIdle /\ ChunkIdle /\ IntegIdle

StoreStart  == StoreInit /\ ParserIdle /\ CacheIdle /\ EmbIdle /\ ChunkIdle /\ IntegIdle

CacheStart  == CacheInit /\ ParserIdle /\ StoreIdle /\ EmbIdle /\ ChunkIdle /\ IntegIdle

EmbStart    == EmbInit /\ ParserIdle /\ StoreIdle /\ ChunkIdle /\ IntegIdle

PersistStart == StoreInit /\ CacheInit /\ ParserIdle /\ EmbIdle /\ ChunkIdle /\ IntegIdle

ResumeStart == EmbInit /\ ParserIdle /\ StoreIdle /\ ChunkIdle /\ IntegIdle

IntegStart == IntegInit /\ ParserIdle /\ StoreIdle /\ CacheIdle /\ EmbIdle /\ ChunkIdle

SpecChunk == ChunkStart /\ [][ChunkNext]_vars

SpecParser == ParserStart /\ [][ParserNext]_vars

SpecStore == StoreStart /\ [][StoreNext]_vars

SpecCache == CacheStart /\ [][CacheNext]_vars

SpecEmb == EmbStart /\ [][EmbNext]_vars

SpecPersist == PersistStart /\ [][PersistNext]_vars

SpecResume == ResumeStart /\ [][ResumeNext]_vars

SpecInteg == IntegStart /\ [][ClassifyInstallation]_vars
====
